---- MODULE Spec2Model ----
(***************************************************************************)
(* A model of the retrieval pipeline of thrivebot.                         *)
(*                                                                         *)
(* Part 1: FAISSVectorStore (src/app/retrieval/vector_store.py).           *)
(*                                                                         *)
(* Numbers.  Vector components are integers on a grid whose unit is        *)
(* 1e-10 / EpsUnits, so the floor of _normalize (1e-10) is EpsUnits grid   *)
(* units.  A normalized vector v / max(|v|, 1e-10) is kept exactly, as the *)
(* pair of v and the square of its divisor; a score (an inner product of   *)
(* two normalized vectors) is kept exactly as n / sqrt(d2).  Float32       *)
(* rounding is not modelled: where the code is exact up to rounding, the   *)
(* model is exact.                                                         *)
(***************************************************************************)
EXTENDS Integers, Sequences, FiniteSets, TLC

\* ---------------------------------------------------------------- bounds
\* The most entries the index or the payload list may hold in the model, and
\* the most rows (and the most payloads) one add call is given.
MaxSize == 2

\* search is called with top_k in 1..MaxK: up to one more than the index holds.
MaxK == MaxSize + 1

\* ------------------------------------------------------------- constants
\* The floor 1e-10 of _normalize, in grid units.
EpsUnits == 2

\* --------------------------------------------------------------- inputs
\* The dimensions an index is constructed with, and arrays come in.
Dims == {1, 2}

\* The vectors callers pass, by dimension.  <<1>> is a non-zero vector of
\* norm below the floor.
Vec(d) ==
    IF d = 1 THEN {<<1>>}
    ELSE {<<2, 0>>, <<0, 2>>}

\* The query vectors.  <<2, 2>> is equally near <<2, 0>> and <<0, 2>>.
QueryVec(d) ==
    IF d = 1 THEN {<<2>>, <<-2>>}
    ELSE {<<2, 0>>, <<2, 2>>, <<-2, 1>>}

\* The payloads (document dicts) callers pass.
Payloads == {"cats", "dogs"}

\* The store names save and load are called with.
Names == {"index"}

\* The ways a save call can end: normally, or with an error (or the process
\* stopping) in write_index, between the two writes, or in pickle.dump.
SaveOutcomes == {"ok", "fail_index_write", "fail_between", "fail_docs_dump"}

\* The order in which index.search returns entries of equal score.  FAISS
\* promises none: earlier-inserted first and later-inserted first stand for
\* the orders a build can produce.
TieBreaks == {"first", "last"}

SeqsUpTo(S, n) == UNION {[1..m -> S] : m \in 0..n}

Min(a, b) == IF a < b THEN a ELSE b

Max(a, b) == IF a > b THEN a ELSE b

\* ------------------------------------------------------------- vectors
RECURSIVE DotFrom(_, _, _)
DotFrom(a, b, i) ==
    IF i > Len(a) THEN 0 ELSE a[i] * b[i] + DotFrom(a, b, i + 1)

\* The inner product of two vectors of the same length.
Dot(a, b) == DotFrom(a, b, 1)

\* np.linalg.norm, squared.
Norm2(v) == Dot(v, v)

\* _normalize on one row: v / max(|v|, 1e-10), kept as v and the squared
\* divisor.
Normalize(v) ==
    [v |-> v, den2 |-> Max(Norm2(v), EpsUnits * EpsUnits)]

\* _normalize on an array: every row.
NormalizeAll(E) == [i \in 1..Len(E) |-> Normalize(E[i])]

\* The squared L2 norm of a normalized vector is Norm2(s.v) / s.den2.
HasUnitNorm(s) == Norm2(s.v) = s.den2

\* The inner product of two normalized vectors: n / sqrt(d2).
Score(s, t) == [n |-> Dot(s.v, t.v), d2 |-> s.den2 * t.den2]

SgnSq(n) == IF n < 0 THEN -(n * n) ELSE n * n

\* a < b for scores: x |-> sgn(x) * x^2 is increasing.
ScoreLess(a, b) == SgnSq(a.n) * b.d2 < SgnSq(b.n) * a.d2

ScoreEq(a, b) == SgnSq(a.n) * b.d2 = SgnSq(b.n) * a.d2

ScoreLeq(a, b) == ScoreLess(a, b) \/ ScoreEq(a, b)

\* -1 <= score <= 1.
ScoreInUnitRange(a) == a.n * a.n <= a.d2

\* ------------------------------------------------------- the FAISS index
\* faiss.IndexFlatIP(dimension): no vectors.
NewIndex(d) == [d |-> d, vecs |-> <<>>]

\* index.ntotal
NTotal(ix) == Len(ix.vecs)

\* A ranking by inner product ascending: the least similar first.
PrecedesAscending(ix, qn, tie, j, i) ==
    LET si == Score(ix.vecs[i], qn)
        sj == Score(ix.vecs[j], qn)
    IN  \/ ScoreLess(sj, si)
        \/ /\ ScoreEq(si, sj)
           /\ IF tie = "first" THEN j < i ELSE j > i

\* Whether position j comes before position i in the ranking for query qn.
Precedes(ix, qn, tie, j, i) ==
    LET si == Score(ix.vecs[i], qn)
        sj == Score(ix.vecs[j], qn)
    IN  \/ ScoreLess(si, sj)
        \/ /\ ScoreEq(si, sj)
           /\ IF tie = "first" THEN j < i ELSE j > i

\* index.search(qn, k) for 1 <= k <= ntotal: the positions of the k vectors
\* of highest inner product with qn, best first.
IndexSearch(ix, qn, k, tie) ==
    LET n == NTotal(ix)
        Rank(i) == Cardinality({j \in 1..n : Precedes(ix, qn, tie, j, i)})
    IN  [r \in 1..k |-> CHOOSE i \in 1..n : Rank(i) = r - 1]

\* ------------------------------------------------------------ the store
VARIABLES
    dimension,  \* self.dimension
    index,      \* self.index
    documents,  \* self.documents
    disk,       \* the files under store_path, by store name
    saved,      \* history: what the last save under a name wrote, if it returned
    lastOp      \* the last call and how it ended

storeVars == <<dimension, index, documents, disk, saved, lastOp>>

\* ------------------------------------- the other components of the pipeline
VARIABLES
    top_k,            \* RAGRetriever.top_k (0: no retriever constructed)
    score_threshold,  \* RAGRetriever.score_threshold, a score n / sqrt(d2)
    lastCall,         \* the last retriever call and what it returned, while
                      \* no call on the store has followed it
    chunk_size,       \* TextChunker.chunk_size (0: no chunker constructed)
    chunk_overlap,    \* TextChunker.chunk_overlap
    tokenizer,        \* TextChunker._tokenizer: "None" or "tiktoken"
    tiktoken,         \* whether "import tiktoken" succeeds at this moment
    chunkInput,       \* the text and source chunk_text is called with
    chunked,          \* the last chunk_text call and what it returned
    embedCall         \* the running or finished embed_query call

retrieverVars == <<top_k, score_threshold, lastCall>>

chunkerVars ==
    <<chunk_size, chunk_overlap, tokenizer, tiktoken, chunkInput, chunked>>

embedderVars == <<embedCall>>

VARIABLES
    searching,        \* the search calls running side by side, one per thread
    textsCall,        \* the running or finished embed_texts call
    ingestRun         \* the last run of ingest_documents

otherVars == <<searching, textsCall, ingestRun>>

vars == <<storeVars, retrieverVars, chunkerVars, embedderVars, otherVars>>

\* No retriever call has been made since the last call on the store.
NoCall ==
    [op |-> "none", outcome |-> "none", results |-> <<>>, max_tokens |-> 0,
     parts |-> <<>>, context |-> "", embedCalls |-> 0, searchCalls |-> 0,
     error |-> "none"]

\* No chunk_text call has been made.
NoChunks == [called |-> FALSE, chunks |-> <<>>]

\* No embed_query call has been made.
NoEmbed ==
    [status |-> "idle", query |-> <<>>, attempts |-> 0, log |-> <<>>,
     result |-> <<>>]

\* No retriever is constructed.
RetrieverIdle ==
    /\ top_k = 0
    /\ score_threshold = [n |-> 0, d2 |-> 1]
    /\ lastCall = NoCall

\* No chunker is constructed.
ChunkerIdle ==
    /\ chunk_size = 0
    /\ chunk_overlap = 0
    /\ tokenizer = "None"
    /\ tiktoken = FALSE
    /\ chunkInput = [text |-> <<>>, source |-> <<>>]
    /\ chunked = NoChunks

\* No embedder call is running.
EmbedderIdle == embedCall = NoEmbed

\* The threads that call search side by side.
Threads == {1, 2}

\* A thread that is not inside search.
NoSearch ==
    [pc |-> "idle", query |-> <<>>, top_k |-> 0, tie |-> "none", k |-> 0,
     found |-> <<>>, i |-> 0, results |-> <<>>, overlapped |-> FALSE]

\* No embed_texts call has been made.
NoTexts ==
    [status |-> "idle", texts |-> <<>>, i |-> 0, attempt |-> 0,
     mode |-> "none", j |-> 0, item_attempt |-> 0, got |-> <<>>,
     all_embeddings |-> <<>>, batches |-> <<>>, log |-> <<>>]

\* ingest_documents has not run.
NoIngest ==
    [status |-> "none", clear_existing |-> FALSE, found |-> <<>>,
     before |-> [faiss |-> [st |-> "none", d |-> 0, vecs |-> <<>>],
                 pkl |-> [st |-> "none", docs |-> <<>>]],
     chunks |-> <<>>]

\* No thread is inside search, no embed_texts call and no ingestion runs.
OthersIdle ==
    /\ searching = [t \in Threads |-> NoSearch]
    /\ textsCall = NoTexts
    /\ ingestRun = NoIngest

\* What a call on the store leaves alone: the other components.  The record
\* of the last retriever call is dropped, a call on the store being the last
\* call now.
StoreFrame ==
    /\ lastCall' = NoCall
    /\ UNCHANGED <<top_k, score_threshold, chunkerVars, embedderVars, otherVars>>

NoFaiss == [st |-> "none", d |-> 0, vecs |-> <<>>]

NoPkl == [st |-> "none", docs |-> <<>>]

NoSave == [valid |-> FALSE, index |-> NewIndex(0), documents |-> <<>>]

\* The record of a call: the method, how it ended (what it returned or the
\* error it raised) and, for save and load, the store name.
Call(op, outcome, nm) == [op |-> op, outcome |-> outcome, name |-> nm]

\* add without the length check of line 60: it stores what it is given.
AddOpNoCountCheck(ix, docs, E, D) ==
    IF Len(E) = 0
    THEN [outcome |-> "ok", index |-> ix, documents |-> docs \o D]
    ELSE IF Len(E[1]) # ix.d
    THEN [outcome |-> "AssertionError", index |-> ix, documents |-> docs]
    ELSE [outcome |-> "ok",
          index |-> [ix EXCEPT !.vecs = @ \o NormalizeAll(E)],
          documents |-> docs \o D]

\* add that puts the new entries in front of the stored ones.
AddOpPrepends(ix, docs, E, D) ==
    IF Len(E) # Len(D)
    THEN [outcome |-> "ValueError", index |-> ix, documents |-> docs]
    ELSE IF Len(E) = 0
    THEN [outcome |-> "ok", index |-> ix, documents |-> docs]
    ELSE IF Len(E[1]) # ix.d
    THEN [outcome |-> "AssertionError", index |-> ix, documents |-> docs]
    ELSE [outcome |-> "ok",
          index |-> [ix EXCEPT !.vecs = NormalizeAll(E) \o @],
          documents |-> D \o docs]

\* FAISSVectorStore.add: how the call ends and the store after it.
AddOp(ix, docs, E, D) ==
    IF Len(E) # Len(D)
    THEN [outcome |-> "ValueError", index |-> ix, documents |-> docs]
    ELSE IF Len(E) = 0
    THEN [outcome |-> "ok", index |-> ix, documents |-> docs]
    ELSE IF Len(E[1]) # ix.d
    THEN \* index.add rejects rows of another dimension
         [outcome |-> "AssertionError", index |-> ix, documents |-> docs]
    ELSE [outcome |-> "ok",
          index |-> [ix EXCEPT !.vecs = @ \o NormalizeAll(E)],
          documents |-> docs \o D]

\* The positions search keeps: those index.search returns for
\* min(top_k, ntotal) that have a payload (0 <= idx < len(documents)), best
\* first.  Called with ntotal >= 1 and a query of the index's dimension.
SearchIds(ix, docs, q, k, tie) ==
    LET ids == IndexSearch(ix, Normalize(q), Min(k, NTotal(ix)), tie)
    IN  SelectSeq(ids, LAMBDA i : i >= 1 /\ i <= Len(docs))

\* How a search call ends: normally, or with the error of index.search on a
\* query of another dimension than the index's.  An empty index returns
\* before the query is looked at.
SearchOutcome(ix, q) ==
    IF NTotal(ix) = 0 THEN "ok"
    ELSE IF Len(q) # ix.d THEN "AssertionError"
    ELSE "ok"

\* FAISSVectorStore.search: how the call ends and the (document, score)
\* pairs it returns.
SearchOp(ix, docs, q, k, tie) ==
    [outcome |-> SearchOutcome(ix, q),
     results |->
        IF NTotal(ix) = 0 \/ Len(q) # ix.d THEN <<>>
        ELSE LET kept == SearchIds(ix, docs, q, k, tie)
             IN  [r \in 1..Len(kept) |->
                    [doc |-> docs[kept[r]],
                     score |-> Score(ix.vecs[kept[r]], Normalize(q))]]]

\* save that leaves a payload file that is already there as it is.
SaveOpStalePayloads(ix, docs, files, outcome) ==
    LET written == [st |-> "ok", d |-> ix.d, vecs |-> ix.vecs]
    IN  IF outcome = "fail_index_write"
        THEN [faiss |-> [st |-> "corrupt", d |-> 0, vecs |-> <<>>],
              pkl |-> files.pkl]
        ELSE [faiss |-> written,
              pkl |-> IF files.pkl.st = "none" /\ outcome = "ok"
                      THEN [st |-> "ok", docs |-> docs]
                      ELSE files.pkl]

\* FAISSVectorStore.save: the two files under the name after the call.
SaveOp(ix, docs, files, outcome) ==
    LET written == [st |-> "ok", d |-> ix.d, vecs |-> ix.vecs]
    IN  CASE outcome = "ok" ->
               [faiss |-> written, pkl |-> [st |-> "ok", docs |-> docs]]
          [] outcome = "fail_index_write" ->
               [faiss |-> [st |-> "corrupt", d |-> 0, vecs |-> <<>>],
                pkl |-> files.pkl]
          [] outcome = "fail_between" ->
               [faiss |-> written, pkl |-> files.pkl]
          [] outcome = "fail_docs_dump" ->
               [faiss |-> written, pkl |-> [st |-> "corrupt", docs |-> <<>>]]

\* load that reads the payload file and never assigns self.documents.
LoadOpKeepsDocuments(ix, docs, files) ==
    IF files.faiss.st # "ok" \/ files.pkl.st = "none"
    THEN [ret |-> FALSE, index |-> ix, documents |-> docs]
    ELSE [ret |-> files.pkl.st = "ok",
          index |-> [d |-> files.faiss.d, vecs |-> files.faiss.vecs],
          documents |-> docs]

\* FAISSVectorStore.load: the return value and the store after the call.
LoadOp(ix, docs, files) ==
    IF files.faiss.st = "none" \/ files.pkl.st = "none"
    THEN [ret |-> FALSE, index |-> ix, documents |-> docs]
    ELSE IF files.faiss.st = "corrupt"
    THEN \* read_index raises: nothing was assigned
         [ret |-> FALSE, index |-> ix, documents |-> docs]
    ELSE LET loaded == [d |-> files.faiss.d, vecs |-> files.faiss.vecs]
         IN  IF files.pkl.st = "corrupt"
             THEN \* pickle.load raises after self.index was assigned
                  [ret |-> FALSE, index |-> loaded, documents |-> docs]
             ELSE [ret |-> TRUE, index |-> loaded,
                   documents |-> files.pkl.docs]

\* get_stats()["dimension"]
StatsDimension == dimension

\* get_stats()["index_size"]
StatsIndexSize == NTotal(index)

\* size
Size == Len(documents)

\* FAISSVectorStore(dimension, store_path) over an empty directory.
StoreInit ==
    /\ dimension \in Dims
    /\ index = NewIndex(dimension)
    /\ documents = <<>>
    /\ disk = [nm \in Names |-> [faiss |-> NoFaiss, pkl |-> NoPkl]]
    /\ saved = [nm \in Names |-> NoSave]
    /\ lastOp = Call("construct", "ok", "")

Init ==
    /\ StoreInit
    /\ RetrieverIdle
    /\ ChunkerIdle
    /\ EmbedderIdle
    /\ OthersIdle

\* FAISSVectorStore(dimension = d, store_path): a new store object over the
\* same directory takes the place of the old one.
Construct(d) ==
    /\ dimension' = d
    /\ index' = NewIndex(d)
    /\ documents' = <<>>
    /\ lastOp' = Call("construct", "ok", "")
    /\ UNCHANGED <<disk, saved>>
    /\ StoreFrame

\* The step of an add call that ends as r says.  The guard keeps the model
\* finite.
AddStep(r) ==
    /\ NTotal(r.index) <= MaxSize
    /\ Len(r.documents) <= MaxSize
    /\ index' = r.index
    /\ documents' = r.documents
    /\ lastOp' = Call("add", r.outcome, "")
    /\ UNCHANGED <<dimension, disk, saved>>
    /\ StoreFrame

\* store.add(E, D)
Add(E, D) == AddStep(AddOp(index, documents, E, D))

\* The step of a search call that ends with the outcome o.
SearchStep(o) ==
    /\ lastOp' = Call("search", o, "")
    /\ UNCHANGED <<dimension, index, documents, disk, saved>>
    /\ StoreFrame

\* store.search(q, k), on a build with the tie order tie
Search(q, k, tie) == SearchStep(SearchOutcome(index, q))

Save(nm, outcome) ==
    /\ disk' = [disk EXCEPT ![nm] = SaveOp(index, documents, @, outcome)]
    /\ saved' = [saved EXCEPT ![nm] =
                    IF outcome = "ok"
                    THEN [valid |-> TRUE, index |-> index,
                          documents |-> documents]
                    ELSE NoSave]
    /\ lastOp' = Call("save", IF outcome = "ok" THEN "ok" ELSE "raised", nm)
    /\ UNCHANGED <<dimension, index, documents>>
    /\ StoreFrame

Load(nm) ==
    LET r == LoadOp(index, documents, disk[nm])
    IN  /\ index' = r.index
        /\ documents' = r.documents
        /\ lastOp' = Call("load", IF r.ret THEN "true" ELSE "false", nm)
        /\ UNCHANGED <<dimension, disk, saved>>
        /\ StoreFrame

\* clear that resets the index and keeps the payload list.
ClearKeepsDocuments ==
    /\ index' = NewIndex(dimension)
    /\ lastOp' = Call("clear", "ok", "")
    /\ UNCHANGED <<dimension, documents, disk, saved>>
    /\ StoreFrame

\* FAISSVectorStore.clear
Clear ==
    /\ index' = NewIndex(dimension)
    /\ documents' = <<>>
    /\ lastOp' = Call("clear", "ok", "")
    /\ UNCHANGED <<dimension, disk, saved>>
    /\ StoreFrame

Queries == UNION {QueryVec(d) : d \in Dims}

Arrays == UNION {SeqsUpTo(Vec(d), MaxSize) : d \in Dims}

PayloadLists == SeqsUpTo(Payloads, MaxSize)

\* Every way an add call can end in the current state.
AddEndings ==
    {AddOp(index, documents, E, D) : E \in Arrays, D \in PayloadLists}

\* Every way a search call can end in the current state.
SearchEndings ==
    {SearchOutcome(index, q) : q \in Queries}

\* Some add call: \E E \in Arrays, D \in PayloadLists : Add(E, D), taken by
\* its endings.
AddCall == \E r \in AddEndings : AddStep(r)

\* Some search call: \E q, k, tie : Search(q, k, tie), taken by its endings.
SearchCall == \E o \in SearchEndings : SearchStep(o)

\* One call on the store.
Next ==
    \/ \E d \in Dims : Construct(d)
    \/ AddCall
    \/ SearchCall
    \/ \E nm \in Names, outcome \in SaveOutcomes : Save(nm, outcome)
    \/ \E nm \in Names : Load(nm)
    \/ Clear

Spec == Init /\ [][Next]_vars

\* ================================================================ strings
\* Texts are strings; the whitespace that occurs in them.
Whitespace == {" ", "\n"}

\* text[i - 1]: the i-th character, as a string of length 1.
CharAt(s, i) == SubSeq(s, i, i)

\* Whether every character of s is whitespace.
IsBlank(s) == \A i \in 1..Len(s) : CharAt(s, i) \in Whitespace

\* str.strip()
Strip(s) ==
    IF IsBlank(s) THEN ""
    ELSE LET Solid == {i \in 1..Len(s) : CharAt(s, i) \notin Whitespace}
             first == CHOOSE i \in Solid : \A j \in Solid : i <= j
             last == CHOOSE i \in Solid : \A j \in Solid : i >= j
         IN  SubSeq(s, first, last)

\* "not s or not s.strip()"
IsEmptyText(s) == s = "" \/ Strip(s) = ""

\* sep.join(parts)
RECURSIVE Join(_, _)
Join(parts, sep) ==
    IF Len(parts) = 0 THEN ""
    ELSE IF Len(parts) = 1 THEN parts[1]
    ELSE parts[1] \o sep \o Join(Tail(parts), sep)

\* ============================================================ RAGRetriever
\* The top_k and score_threshold retrievers are constructed with: the
\* threshold 0.3 of the default and the threshold 1.0, as scores.
TopKs == {1, 2}

Thresholds == {[n |-> 3, d2 |-> 100], [n |-> 1, d2 |-> 1]}

\* The queries retrieve is called with, and its top_k argument: 0 stands for
\* None (and for 0), which "top_k or self.top_k" replaces by self.top_k.
QueryTexts == {"", " \n", "hi", " hi"}

KArgs == 0..MaxK

\* How the embed_query call of retrieve ends: with the embedding of the
\* query, of whatever dimension the provider returns, or with the error of
\* an exhausted retry budget.
EmbedResults ==
    {[ok |-> TRUE, vec |-> q] : q \in Queries}
        \cup {[ok |-> FALSE, vec |-> <<>>]}

\* The dicts behind the payloads: the second has no "source" key.
DocDict(doc) ==
    IF doc = "cats" THEN [content |-> "cats", source |-> "a.md"]
    ELSE [content |-> "dogs!"]

\* doc.get(key, default)
DocGet(doc, key, default) ==
    IF key \in DOMAIN DocDict(doc) THEN DocDict(doc)[key] ELSE default

\* The dict retrieve makes of a (document, score) pair.
Formatted(r) ==
    [content |-> DocGet(r.doc, "content", ""),
     source |-> DocGet(r.doc, "source", "unknown"),
     score |-> r.score]

\* A filter that keeps only the scores strictly above the threshold.
RECURSIVE FilterResultsStrict(_, _)
FilterResultsStrict(res, thr) ==
    IF Len(res) = 0 THEN <<>>
    ELSE (IF ScoreLess(thr, res[1].score)
          THEN <<Formatted(res[1])>> ELSE <<>>)
             \o FilterResultsStrict(Tail(res), thr)

\* The loop of retrieve over the search results: those with
\* score >= score_threshold, formatted, in the order met.
RECURSIVE FilterResults(_, _)
FilterResults(res, thr) ==
    IF Len(res) = 0 THEN <<>>
    ELSE (IF ScoreLeq(thr, res[1].score)
          THEN <<Formatted(res[1])>> ELSE <<>>)
             \o FilterResults(Tail(res), thr)

\* What a retrieve call comes to: how it ends, what it returns, how often it
\* called the embedder and the store, how the search ended, and the error it
\* caught, if any.
Retrieved(outcome, results, embeds, searches, searched, error) ==
    [outcome |-> outcome, results |-> results, embedCalls |-> embeds,
     searchCalls |-> searches, searched |-> searched, error |-> error]

\* retrieve that embeds and searches whatever the query is.
RetrieveOpNoBlankCheck(ix, docs, topk, thr, query, karg, emb, tie) ==
    LET k == IF karg # 0 THEN karg ELSE topk
    IN  IF ~emb.ok
        THEN Retrieved("returned", <<>>, 1, 0, "none", "RetryError")
        ELSE LET s == SearchOp(ix, docs, emb.vec, k, tie)
             IN  IF s.outcome # "ok"
                 THEN Retrieved("returned", <<>>, 1, 1, s.outcome, s.outcome)
                 ELSE Retrieved("returned", FilterResults(s.results, thr),
                                1, 1, "ok", "none")

\* RAGRetriever.retrieve(query, top_k = karg), the embed_query call ending
\* as emb says.  Every exception is caught and answered with [].
RetrieveOp(ix, docs, topk, thr, query, karg, emb, tie) ==
    IF IsEmptyText(query)
    THEN Retrieved("returned", <<>>, 0, 0, "none", "none")
    ELSE LET k == IF karg # 0 THEN karg ELSE topk
         IN  IF ~emb.ok
             THEN Retrieved("returned", <<>>, 1, 0, "none", "RetryError")
             ELSE LET s == SearchOp(ix, docs, emb.vec, k, tie)
                  IN  IF s.outcome # "ok"
                      THEN Retrieved("returned", <<>>, 1, 1, s.outcome,
                                     s.outcome)
                      ELSE Retrieved("returned",
                                     FilterResults(s.results, thr),
                                     1, 1, "ok", "none")

\* The string format_context answers an empty result list with.
NoInformation == "No relevant information found in the knowledge base."

\* round(100 * |score|) as "{score:.2f}" rounds it: to the nearest hundredth,
\* an exact half going to the even one.
Hundredths(score) ==
    LET n2 == 40000 * score.n * score.n
        top == 100 * (IF score.n < 0 THEN -score.n ELSE score.n) + 1
        h == CHOOSE x \in 0..top :
                 /\ x = 0 \/ (2 * x - 1) * (2 * x - 1) * score.d2 <= n2
                 /\ (2 * x + 1) * (2 * x + 1) * score.d2 > n2
    IN  IF h > 0 /\ (2 * h - 1) * (2 * h - 1) * score.d2 = n2 /\ h % 2 = 1
        THEN h - 1 ELSE h

\* f"{score:.2f}"
FormatScore(score) ==
    LET h == Hundredths(score)
    IN  (IF score.n < 0 THEN "-" ELSE "")
            \o ToString(h \div 100) \o "."
            \o (IF h % 100 < 10 THEN "0" ELSE "") \o ToString(h % 100)

\* The block format_context makes of the i-th result.
ContextPiece(i, result) ==
    "\n[Source " \o ToString(i) \o ": " \o result.source \o "]\nRelevance: "
        \o FormatScore(result.score) \o "\nContent: " \o result.content
        \o "\n"

\* len(context_piece) // 4
PieceTokens(piece) == Len(piece) \div 4

\* The loop of format_context from the i-th result on, current_length tokens
\* being used: the blocks it appends until one would pass max_tokens.
RECURSIVE IncludedFrom(_, _, _, _)
IncludedFrom(results, i, current_length, max_tokens) ==
    IF i > Len(results) THEN <<>>
    ELSE LET piece == ContextPiece(i, results[i])
         IN  IF current_length + PieceTokens(piece) > max_tokens
             THEN <<>>
             ELSE <<piece>> \o IncludedFrom(results, i + 1,
                                   current_length + PieceTokens(piece),
                                   max_tokens)

\* The loop of format_context if it passed over a block that does not fit
\* and went on with the next.
RECURSIVE IncludedSkipping(_, _, _, _)
IncludedSkipping(results, i, current_length, max_tokens) ==
    IF i > Len(results) THEN <<>>
    ELSE LET piece == ContextPiece(i, results[i])
         IN  IF current_length + PieceTokens(piece) > max_tokens
             THEN IncludedSkipping(results, i + 1, current_length, max_tokens)
             ELSE <<piece>> \o IncludedSkipping(results, i + 1,
                                   current_length + PieceTokens(piece),
                                   max_tokens)

\* format_context that skips a block over the budget and continues.
FormatContextOpSkips(results, max_tokens) ==
    IF Len(results) = 0
    THEN [parts |-> <<>>, context |-> NoInformation]
    ELSE LET parts == IncludedSkipping(results, 1, 0, max_tokens)
         IN  [parts |-> parts, context |-> Join(parts, "\n---\n")]

\* format_context that answers with the sentinel when no block fits.
FormatContextOpSentinelIfNone(results, max_tokens) ==
    LET parts == IncludedFrom(results, 1, 0, max_tokens)
    IN  IF Len(parts) = 0
        THEN [parts |-> <<>>, context |-> NoInformation]
        ELSE [parts |-> parts, context |-> Join(parts, "\n---\n")]

\* format_context without the answer to an empty result list.
FormatContextOpNoSentinel(results, max_tokens) ==
    LET parts == IncludedFrom(results, 1, 0, max_tokens)
    IN  [parts |-> parts, context |-> Join(parts, "\n---\n")]

\* format_context that never looks at the budget.
FormatContextOpNoBudget(results, max_tokens) ==
    IF Len(results) = 0
    THEN [parts |-> <<>>, context |-> NoInformation]
    ELSE LET parts == [i \in 1..Len(results) |-> ContextPiece(i, results[i])]
         IN  [parts |-> parts, context |-> Join(parts, "\n---\n")]

\* RAGRetriever.format_context(results, max_tokens): the blocks included
\* and the text returned.
FormatContextOp(results, max_tokens) ==
    IF Len(results) = 0
    THEN [parts |-> <<>>, context |-> NoInformation]
    ELSE LET parts == IncludedFrom(results, 1, 0, max_tokens)
         IN  [parts |-> parts, context |-> Join(parts, "\n---\n")]

\* The result dicts format_context is given, and the budgets: a block
\* costs 12 or 14 tokens here.
ResultDicts ==
    {[content |-> c, source |-> "a.md", score |-> sc] :
        c \in {"cats", "dogs and cats"},
        sc \in {[n |-> 1, d2 |-> 1], [n |-> -2, d2 |-> 5]}}

ResultLists == SeqsUpTo(ResultDicts, MaxSize)

Budgets == {-1, 0, 12, 13, 25, 3000}

\* The record of a retriever call.
RetrieverCall(op, r, max_tokens, f) ==
    [op |-> op, outcome |-> r.outcome, results |-> r.results,
     max_tokens |-> max_tokens, parts |-> f.parts, context |-> f.context,
     embedCalls |-> r.embedCalls, searchCalls |-> r.searchCalls,
     error |-> r.error]

\* RAGRetriever(embedder, vector_store, top_k, score_threshold) over a new
\* store.
RetrieverInit ==
    /\ StoreInit
    /\ top_k \in TopKs
    /\ score_threshold \in Thresholds
    /\ lastCall = NoCall
    /\ ChunkerIdle
    /\ EmbedderIdle
    /\ OthersIdle

\* The step of a retrieve call that comes to r; the call of search it made,
\* if any, is the last call on the store.
RetrieveStep(r) ==
    /\ top_k > 0
    /\ lastCall' = RetrieverCall("retrieve", r, 0,
                                 [parts |-> <<>>, context |-> ""])
    /\ lastOp' = IF r.searchCalls > 0
                 THEN Call("search", r.searched, "") ELSE lastOp
    /\ UNCHANGED <<dimension, index, documents, disk, saved>>
    /\ UNCHANGED <<top_k, score_threshold, chunkerVars, embedderVars, otherVars>>

\* retriever.retrieve(query, karg)
Retrieve(query, karg, emb, tie) ==
    RetrieveStep(RetrieveOp(index, documents, top_k, score_threshold,
                            query, karg, emb, tie))

\* Every way a retrieve call can end in the current state.
RetrieveEndings ==
    {RetrieveOp(index, documents, top_k, score_threshold, query, karg, emb,
                tie) :
        query \in QueryTexts, karg \in KArgs, emb \in EmbedResults,
        tie \in TieBreaks}

RetrieveCall == \E r \in RetrieveEndings : RetrieveStep(r)

\* retriever.format_context(results, max_tokens)
FormatContext(results, max_tokens) ==
    /\ top_k > 0
    /\ lastCall' =
          RetrieverCall("format_context",
                        Retrieved("returned", results, 0, 0, "none", "none"),
                        max_tokens, FormatContextOp(results, max_tokens))
    /\ UNCHANGED <<storeVars, top_k, score_threshold, chunkerVars,
                   embedderVars, otherVars>>

FormatContextCall ==
    \E results \in ResultLists, max_tokens \in Budgets :
        FormatContext(results, max_tokens)

\* retriever.retrieve_and_format(query, karg, max_tokens): retrieve, then
\* format_context on what it returned.
RetrieveAndFormatStep(r, max_tokens) ==
    /\ top_k > 0
    /\ lastCall' = RetrieverCall("retrieve_and_format", r, max_tokens,
                                 FormatContextOp(r.results, max_tokens))
    /\ lastOp' = IF r.searchCalls > 0
                 THEN Call("search", r.searched, "") ELSE lastOp
    /\ UNCHANGED <<dimension, index, documents, disk, saved>>
    /\ UNCHANGED <<top_k, score_threshold, chunkerVars, embedderVars, otherVars>>

\* The budgets retrieve_and_format is called with: one block, and the
\* default.
ComposedBudgets == {12, 3000}

RetrieveAndFormatCall ==
    \E r \in RetrieveEndings, max_tokens \in ComposedBudgets :
        RetrieveAndFormatStep(r, max_tokens)

\* The retriever over a store that is added to and cleared.
RetrieverNext ==
    \/ AddCall
    \/ Clear
    \/ RetrieveCall
    \/ RetrieveAndFormatCall

SpecRetriever == RetrieverInit /\ [][RetrieverNext]_vars

\* format_context alone, on result lists of any origin.
FormatNext == FormatContextCall

SpecFormat == RetrieverInit /\ [][FormatNext]_vars

\* ============================================================= TextChunker
\* The most pieces a text is put together from.
MaxPieces == 3

\* The pieces of the texts: a sentence of 5 characters, two of them in one
\* line, a blank line, a space, a word, and a paragraph of two sentences
\* set off by blank lines.
Pieces ==
    {"abcd.", "abcd. abcd.", "\n\n", " ", "ef", "\n\nabcd. abcd.\n\n"}

RECURSIVE TextsOf(_)
TextsOf(n) ==
    IF n = 0 THEN {""}
    ELSE TextsOf(n - 1) \cup {t \o p : t \in TextsOf(n - 1), p \in Pieces}

\* The texts chunk_text is called with.
Texts == TextsOf(MaxPieces)

\* The source and metadata arguments that go with them: metadata None, and
\* a dict.
Documents ==
    {[source |-> "doc.txt", metadata |-> "None"],
     [source |-> "b.md", metadata |-> "lang=en"]}

ChunkSizes == {1, 2}

ChunkOverlaps == {0, 1}

\* The exact tokenizer (tiktoken is not part of the repository): a byte
\* pair encoding with the merges below, every other character a token.
Merges == {"ab", "cd", "ef"}

\* tokenizer.encode
RECURSIVE Encode(_)
Encode(t) ==
    IF Len(t) = 0 THEN <<>>
    ELSE IF Len(t) >= 2 /\ SubSeq(t, 1, 2) \in Merges
    THEN <<SubSeq(t, 1, 2)>> \o Encode(SubSeq(t, 3, Len(t)))
    ELSE <<SubSeq(t, 1, 1)>> \o Encode(SubSeq(t, 2, Len(t)))

\* tokenizer.decode
Decode(tokens) == Join(tokens, "")

\* The tokenizer the property TextChunker.tokenizer returns, and leaves in
\* _tokenizer: the loaded one, or the one the import gives now.
TokenizerNow(loaded, importable) ==
    IF loaded = "tiktoken" \/ importable THEN "tiktoken" ELSE "None"

\* count_tokens with the tokenizer tk
CountTokens(tk, t) ==
    IF tk = "tiktoken" THEN Len(Encode(t)) ELSE Len(t) \div 4

\* s[-n:] for n >= 0: the last n items, and all of them for n = 0.
LastN(s, n) ==
    IF n = 0 \/ n >= Len(s) THEN s ELSE SubSeq(s, Len(s) - n + 1, Len(s))

\* [p.strip() for p in pieces if p.strip()]
StripAll(pieces) ==
    SelectSeq([i \in 1..Len(pieces) |-> Strip(pieces[i])],
              LAMBDA q : q # "")

\* re.split(r'\n\s*\n', t): the leftmost newline that a run of whitespace
\* joins to a later newline starts a separator, which runs to the last
\* such newline.
RECURSIVE SplitOnBlankLines(_)
SplitOnBlankLines(t) ==
    LET Ends(i) == {j \in (i + 1)..Len(t) :
                       CharAt(t, j) = "\n" /\ IsBlank(SubSeq(t, i, j))}
        Starts == {i \in 1..Len(t) : CharAt(t, i) = "\n" /\ Ends(i) # {}}
    IN  IF Starts = {} THEN <<t>>
        ELSE LET i == CHOOSE x \in Starts : \A y \in Starts : x <= y
                 j == CHOOSE x \in Ends(i) : \A y \in Ends(i) : x >= y
             IN  <<SubSeq(t, 1, i - 1)>>
                     \o SplitOnBlankLines(SubSeq(t, j + 1, Len(t)))

\* _split_into_paragraphs
SplitIntoParagraphs(t) == StripAll(SplitOnBlankLines(t))

\* re.split(r'(?<=[.!?])\s+', t): a run of whitespace that follows a
\* sentence-ending character is a separator.
RECURSIVE SplitAfterSentenceEnd(_)
SplitAfterSentenceEnd(t) ==
    LET Starts == {i \in 2..Len(t) :
                      /\ CharAt(t, i) \in Whitespace
                      /\ CharAt(t, i - 1) \in {".", "!", "?"}}
    IN  IF Starts = {} THEN <<t>>
        ELSE LET i == CHOOSE x \in Starts : \A y \in Starts : x <= y
                 Run == {j \in i..Len(t) : IsBlank(SubSeq(t, i, j))}
                 j == CHOOSE x \in Run : \A y \in Run : x >= y
             IN  <<SubSeq(t, 1, i - 1)>>
                     \o SplitAfterSentenceEnd(SubSeq(t, j + 1, Len(t)))

\* _split_into_sentences
SplitIntoSentences(t) == StripAll(SplitAfterSentenceEnd(t))

\* What a chunk_text call works with: the tokenizer, the sizes, and the
\* source and metadata arguments.
ChunkerConfig(tk, size, overlap, doc) ==
    [tk |-> tk, size |-> size, overlap |-> overlap,
     source |-> doc.source, metadata |-> doc.metadata]

\* _create_chunk
CreateChunk(cfg, text_parts, chunk_index) ==
    [content |-> Join(text_parts, " "),
     source |-> cfg.source,
     chunk_index |-> chunk_index,
     metadata |-> [given |-> cfg.metadata,
                   token_count |-> CountTokens(cfg.tk, Join(text_parts, " "))]]

\* TextChunk.id
ChunkId(chunk) ==
    chunk.source \o "::chunk_" \o ToString(chunk.chunk_index)

\* _get_overlap_text
GetOverlapText(cfg, chunk_parts) ==
    IF Len(chunk_parts) = 0 THEN ""
    ELSE LET full_text == Join(chunk_parts, " ")
         IN  IF cfg.tk = "tiktoken"
             THEN IF Len(Encode(full_text)) <= cfg.overlap THEN full_text
                  ELSE Decode(LastN(Encode(full_text), cfg.overlap))
             ELSE IF Len(full_text) > cfg.overlap * 4
                  THEN LastN(full_text, cfg.overlap * 4)
                  ELSE full_text

\* The loop of _split_large_paragraph from the i-th sentence on, and the
\* flush after it.
RECURSIVE PackSentences(_, _, _, _, _, _, _)
PackSentences(cfg, sentences, i, start, chunks, current_chunk, tokens) ==
    IF i > Len(sentences)
    THEN IF Len(current_chunk) > 0
         THEN Append(chunks, CreateChunk(cfg, current_chunk,
                                         start + Len(chunks)))
         ELSE chunks
    ELSE LET sentence_tokens == CountTokens(cfg.tk, sentences[i])
         IN  IF tokens + sentence_tokens > cfg.size
             THEN PackSentences(cfg, sentences, i + 1, start,
                      IF Len(current_chunk) > 0
                      THEN Append(chunks,
                               CreateChunk(cfg, current_chunk,
                                           start + Len(chunks)))
                      ELSE chunks,
                      <<sentences[i]>>, sentence_tokens)
             ELSE PackSentences(cfg, sentences, i + 1, start, chunks,
                      Append(current_chunk, sentences[i]),
                      tokens + sentence_tokens)

\* _split_large_paragraph
SplitLargeParagraph(cfg, paragraph, start_index) ==
    PackSentences(cfg, SplitIntoSentences(paragraph), 1, start_index,
                  <<>>, <<>>, 0)

\* The sentence chunks appended, each with the index len(chunks) - 1.
RECURSIVE AppendSentenceChunksOffByOne(_, _)
AppendSentenceChunksOffByOne(chunks, sentence_chunks) ==
    IF Len(sentence_chunks) = 0 THEN chunks
    ELSE AppendSentenceChunksOffByOne(
             Append(chunks, [sentence_chunks[1] EXCEPT
                                !.chunk_index = Len(chunks) - 1]),
             Tail(sentence_chunks))

\* Lines 96-98: each sentence chunk is given the index len(chunks) and
\* appended.
RECURSIVE AppendSentenceChunks(_, _)
AppendSentenceChunks(chunks, sentence_chunks) ==
    IF Len(sentence_chunks) = 0 THEN chunks
    ELSE AppendSentenceChunks(
             Append(chunks, [sentence_chunks[1] EXCEPT
                                !.chunk_index = Len(chunks)]),
             Tail(sentence_chunks))

\* chunks with the accumulator appended as a chunk, if it holds anything.
Flushed(cfg, chunks, current_chunk) ==
    IF Len(current_chunk) > 0
    THEN Append(chunks, CreateChunk(cfg, current_chunk, Len(chunks)))
    ELSE chunks

\* chunk_text that keeps the accumulator over an oversized paragraph: the
\* paragraph after it is added to what was accumulated before it.
RECURSIVE ChunkLoopCarries(_, _, _, _, _, _)
ChunkLoopCarries(cfg, paragraphs, i, chunks, current_chunk, current_tokens) ==
    IF i > Len(paragraphs) THEN Flushed(cfg, chunks, current_chunk)
    ELSE LET para == paragraphs[i]
             para_tokens == CountTokens(cfg.tk, para)
             flushed == Flushed(cfg, chunks, current_chunk)
         IN  IF para_tokens > cfg.size
             THEN ChunkLoopCarries(cfg, paragraphs, i + 1,
                      AppendSentenceChunks(flushed,
                          SplitLargeParagraph(cfg, para, Len(flushed))),
                      current_chunk, current_tokens)
             ELSE IF current_tokens + para_tokens > cfg.size
             THEN LET overlap_text == GetOverlapText(cfg, current_chunk)
                      seeded == IF overlap_text # ""
                                THEN <<overlap_text, para>> ELSE <<para>>
                  IN  ChunkLoopCarries(cfg, paragraphs, i + 1, flushed, seeded,
                                CountTokens(cfg.tk, Join(seeded, " ")))
             ELSE ChunkLoopCarries(cfg, paragraphs, i + 1, chunks,
                            Append(current_chunk, para),
                            current_tokens + para_tokens)

\* chunk_text without the flush after the last paragraph (lines 117-120).
RECURSIVE ChunkLoopNoLastFlush(_, _, _, _, _, _)
ChunkLoopNoLastFlush(cfg, paragraphs, i, chunks, current_chunk, current_tokens) ==
    IF i > Len(paragraphs) THEN chunks
    ELSE LET para == paragraphs[i]
             para_tokens == CountTokens(cfg.tk, para)
             flushed == Flushed(cfg, chunks, current_chunk)
         IN  IF para_tokens > cfg.size
             THEN ChunkLoopNoLastFlush(cfg, paragraphs, i + 1,
                      AppendSentenceChunks(flushed,
                          SplitLargeParagraph(cfg, para, Len(flushed))),
                      <<>>, 0)
             ELSE IF current_tokens + para_tokens > cfg.size
             THEN LET overlap_text == GetOverlapText(cfg, current_chunk)
                      seeded == IF overlap_text # ""
                                THEN <<overlap_text, para>> ELSE <<para>>
                  IN  ChunkLoopNoLastFlush(cfg, paragraphs, i + 1, flushed,
                          seeded, CountTokens(cfg.tk, Join(seeded, " ")))
             ELSE ChunkLoopNoLastFlush(cfg, paragraphs, i + 1, chunks,
                            Append(current_chunk, para),
                            current_tokens + para_tokens)

\* The loop of chunk_text from the i-th paragraph on, and the flush after
\* it.
RECURSIVE ChunkLoop(_, _, _, _, _, _)
ChunkLoop(cfg, paragraphs, i, chunks, current_chunk, current_tokens) ==
    IF i > Len(paragraphs) THEN Flushed(cfg, chunks, current_chunk)
    ELSE LET para == paragraphs[i]
             para_tokens == CountTokens(cfg.tk, para)
             flushed == Flushed(cfg, chunks, current_chunk)
         IN  IF para_tokens > cfg.size
             THEN ChunkLoop(cfg, paragraphs, i + 1,
                      AppendSentenceChunks(flushed,
                          SplitLargeParagraph(cfg, para, Len(flushed))),
                      <<>>, 0)
             ELSE IF current_tokens + para_tokens > cfg.size
             THEN LET overlap_text == GetOverlapText(cfg, current_chunk)
                      seeded == IF overlap_text # ""
                                THEN <<overlap_text, para>> ELSE <<para>>
                  IN  ChunkLoop(cfg, paragraphs, i + 1, flushed, seeded,
                                CountTokens(cfg.tk, Join(seeded, " ")))
             ELSE ChunkLoop(cfg, paragraphs, i + 1, chunks,
                            Append(current_chunk, para),
                            current_tokens + para_tokens)

\* chunk_text that takes a blank text for a paragraph.
ChunkTextOpKeepsBlank(cfg, t) ==
    ChunkLoop(cfg, SplitOnBlankLines(t), 1, <<>>, <<>>, 0)

\* TextChunker.chunk_text(text, source, metadata): the chunks returned.
ChunkTextOp(cfg, t) ==
    IF IsEmptyText(t) THEN <<>>
    ELSE ChunkLoop(cfg, SplitIntoParagraphs(t), 1, <<>>, <<>>, 0)

\* TextChunker(chunk_size, chunk_overlap), and the arguments of the calls
\* of chunk_text that follow.
ChunkerInit ==
    /\ StoreInit
    /\ dimension = 1
    /\ RetrieverIdle
    /\ EmbedderIdle
    /\ OthersIdle
    /\ chunk_size \in ChunkSizes
    /\ chunk_overlap \in ChunkOverlaps
    /\ tokenizer = "None"
    /\ tiktoken \in BOOLEAN
    /\ chunkInput \in {[text |-> t, source |-> d.source,
                        metadata |-> d.metadata] :
                          t \in Texts, d \in Documents}
    /\ chunked = NoChunks

\* The configuration a call of chunk_text made now works with.
ConfigNow ==
    ChunkerConfig(TokenizerNow(tokenizer, tiktoken), chunk_size,
                  chunk_overlap, chunkInput)

\* chunker.chunk_text(text, source, metadata).  A blank text returns before
\* the tokenizer is asked for; any other text counts tokens, which loads
\* the tokenizer if the import succeeds.
ChunkText ==
    /\ chunk_size > 0
    /\ chunked' = [called |-> TRUE,
                   chunks |-> ChunkTextOp(ConfigNow, chunkInput.text)]
    /\ tokenizer' = IF IsEmptyText(chunkInput.text) THEN tokenizer
                    ELSE TokenizerNow(tokenizer, tiktoken)
    /\ UNCHANGED <<chunk_size, chunk_overlap, tiktoken, chunkInput>>
    /\ UNCHANGED <<storeVars, retrieverVars, embedderVars, otherVars>>

\* The environment: "import tiktoken" starts or stops succeeding (the
\* package is installed or removed, sys.path changes).
SetTiktoken(b) ==
    /\ chunk_size > 0
    /\ tiktoken # b
    /\ tiktoken' = b
    /\ UNCHANGED <<chunk_size, chunk_overlap, tokenizer, chunkInput, chunked>>
    /\ UNCHANGED <<storeVars, retrieverVars, embedderVars, otherVars>>

ChunkerNext ==
    \/ ChunkText
    \/ \E b \in BOOLEAN : SetTiktoken(b)

SpecChunker == ChunkerInit /\ [][ChunkerNext]_vars

\* ========================================================== GeminiEmbedder
\* stop_after_attempt(3): the retry of embed_query stops with the third
\* attempt.
StopAfterAttempt == 3

\* How one call of the provider (embed_content) ends: with an embedding, or
\* with one of two errors.
ProviderErrors == {"timeout", "rate_limit"}

ProviderOutcomes ==
    {[ok |-> TRUE, error |-> "none", vec |-> v] : v \in QueryVec(2)}
        \cup {[ok |-> FALSE, error |-> e, vec |-> <<>>] : e \in ProviderErrors}

\* The retry that goes on after the third failed attempt and stops with the
\* fourth.
AttemptEndsOneMore(attempt_number, outcome) ==
    IF outcome.ok THEN "returned"
    ELSE IF attempt_number > StopAfterAttempt THEN "raised"
    ELSE "waiting"

\* What the retry decorator does when attempt attempt_number has ended: it
\* returns the result of a successful attempt, raises when the stop
\* condition holds, and otherwise waits and tries again.
AttemptEnds(attempt_number, outcome) ==
    IF outcome.ok THEN "returned"
    ELSE IF attempt_number >= StopAfterAttempt THEN "raised"
    ELSE "waiting"

\* GeminiEmbedder(api_key): no call running.
EmbedderInit ==
    /\ StoreInit
    /\ dimension = 1
    /\ RetrieverIdle
    /\ ChunkerIdle
    /\ embedCall = NoEmbed
    /\ OthersIdle

\* embedder.embed_query(query) is called, no other call running.
StartEmbedQuery(query) ==
    /\ embedCall.status \in {"idle", "returned", "raised"}
    /\ embedCall' = [status |-> "running", query |-> query, attempts |-> 0,
                     log |-> <<>>, result |-> <<>>]
    /\ UNCHANGED <<storeVars, retrieverVars, chunkerVars, otherVars>>

\* One attempt: the body of embed_query calls the provider, which ends as
\* outcome says; an error is logged and raised again, to the decorator.
Attempt(outcome) ==
    /\ embedCall.status = "running"
    /\ embedCall' =
          [embedCall EXCEPT
              !.attempts = @ + 1,
              !.log = Append(@, IF outcome.ok THEN "ok" ELSE outcome.error),
              !.result = outcome.vec,
              !.status = AttemptEnds(embedCall.attempts + 1, outcome)]
    /\ UNCHANGED <<storeVars, retrieverVars, chunkerVars, otherVars>>

\* The wait between two attempts (wait_exponential) is over.
Backoff ==
    /\ embedCall.status = "waiting"
    /\ embedCall' = [embedCall EXCEPT !.status = "running"]
    /\ UNCHANGED <<storeVars, retrieverVars, chunkerVars, otherVars>>

AttemptCall == \E outcome \in ProviderOutcomes : Attempt(outcome)

EmbedderNext ==
    \/ \E query \in QueryTexts : StartEmbedQuery(query)
    \/ AttemptCall
    \/ Backoff

SpecEmbedder == EmbedderInit /\ [][EmbedderNext]_vars

\* Every call of the provider ends and every wait ends.
FairSpecEmbedder ==
    /\ SpecEmbedder
    /\ WF_vars(AttemptCall)
    /\ WF_vars(Backoff)

\* ------------------------------------------------------------ embed_texts
\* MAX_BATCH_SIZE, 100 in the source, scaled down: the longest batch of one
\* provider call.
MAX_BATCH_SIZE == 2

\* The longest list embed_texts is called with: two full batches.
MaxTexts == 2 * MAX_BATCH_SIZE

\* The lists of texts embed_texts is called with.
TextLists == SeqsUpTo(Payloads, MaxTexts)

\* The embedding the provider gives a text, whichever call asks for it.
EmbeddingOf(text) == IF text = "cats" THEN <<2, 0>> ELSE <<0, 2>>

\* texts[i:i + MAX_BATCH_SIZE + 1]: a batch one text too long.
BatchOneMore(texts, i) ==
    SubSeq(texts, i + 1, Min(i + MAX_BATCH_SIZE + 1, Len(texts)))

\* batch = texts[i:i + self.MAX_BATCH_SIZE]
Batch(texts, i) == SubSeq(texts, i + 1, Min(i + MAX_BATCH_SIZE, Len(texts)))

\* The record of one provider call (embed_content): batched or not, the
\* texts it was given, and whether it returned embeddings.  The log of a
\* call holds the provider calls made for its current batch.
ProviderCall(kind, content, ok) ==
    [kind |-> kind, content |-> content, ok |-> ok]

\* The call after the batch at i is embedded as served says (by the batched
\* call, or by the per-item calls): all_embeddings.extend(batch_embeddings),
\* then the next turn of the loop of embed_texts or, after the last batch,
\* the return.
BatchDone(c, batch_embeddings, served, call) ==
    LET next == c.i + MAX_BATCH_SIZE
        done == [c EXCEPT
                   !.all_embeddings = @ \o batch_embeddings,
                   !.batches[Len(c.batches)].served = served,
                   !.log = Append(@, call),
                   !.got = <<>>, !.j = 0, !.item_attempt = 0]
    IN  IF next >= Len(c.texts)
        THEN [done EXCEPT !.status = "returned", !.mode = "none"]
        ELSE [done EXCEPT
                 !.i = next, !.attempt = 1, !.mode = "batch", !.log = <<>>,
                 !.batches = Append(@, [texts |-> Batch(c.texts, next),
                                       served |-> "pending"])]

\* GeminiEmbedder(api_key): no call running.
EmbedTextsInit ==
    /\ StoreInit
    /\ dimension = 1
    /\ RetrieverIdle
    /\ ChunkerIdle
    /\ EmbedderIdle
    /\ OthersIdle

\* embedder.embed_texts(texts) is called, no other call running.  An empty
\* list returns at once (lines 91-92); any other enters the loop with
\* its first batch.
StartEmbedTexts(texts) ==
    /\ textsCall.status \in {"idle", "returned", "raised"}
    /\ textsCall' =
          IF Len(texts) = 0
          THEN [NoTexts EXCEPT !.status = "returned"]
          ELSE [NoTexts EXCEPT
                  !.status = "running", !.texts = texts, !.attempt = 1,
                  !.mode = "batch",
                  !.batches = <<[texts |-> Batch(texts, 0),
                                 served |-> "pending"]>>]
    /\ UNCHANGED <<storeVars, retrieverVars, chunkerVars, embedderVars>>
    /\ UNCHANGED <<searching, ingestRun>>

\* The batched provider call of _embed_batch (lines 118-123) ends: with one
\* embedding per text, which _embed_batch returns, or with an error, which
\* is logged and followed by the per-item calls (lines 124-127).
BatchedCall(ok) ==
    /\ textsCall.status = "running"
    /\ textsCall.mode = "batch"
    /\ LET c == textsCall
           batch == Batch(c.texts, c.i)
           call == ProviderCall("batch", batch, ok)
       IN  textsCall' =
              IF ok
              THEN BatchDone(c, [n \in 1..Len(batch) |-> EmbeddingOf(batch[n])],
                             "batch", call)
              ELSE [c EXCEPT
                      !.mode = "items", !.j = 1, !.item_attempt = 1,
                      !.got = <<>>, !.log = Append(@, call)]
    /\ UNCHANGED <<storeVars, retrieverVars, chunkerVars, embedderVars>>
    /\ UNCHANGED <<searching, ingestRun>>

\* One attempt of embed_text for the j-th text of the batch, in the list
\* comprehension of line 127.  It returns the embedding, and the next text
\* follows or the batch is done; or it fails and is made again, up to
\* stop_after_attempt(3); or it fails for the third time, embed_text
\* raises, and with it this attempt of _embed_batch, which is made again
\* from the batched call, up to stop_after_attempt(3), after which
\* embed_texts raises.
ItemCall(ok) ==
    /\ textsCall.status = "running"
    /\ textsCall.mode = "items"
    /\ LET c == textsCall
           batch == Batch(c.texts, c.i)
           call == ProviderCall("item", <<batch[c.j]>>, ok)
           logged == [c EXCEPT !.log = Append(@, call)]
       IN  textsCall' =
              IF ok
              THEN IF c.j = Len(batch)
                   THEN BatchDone(c, Append(c.got, EmbeddingOf(batch[c.j])),
                                  "items", call)
                   ELSE [logged EXCEPT
                           !.got = Append(@, EmbeddingOf(batch[c.j])),
                           !.j = @ + 1, !.item_attempt = 1]
              ELSE IF c.item_attempt < StopAfterAttempt
              THEN [logged EXCEPT !.item_attempt = @ + 1]
              ELSE IF c.attempt < StopAfterAttempt
              THEN [logged EXCEPT
                      !.attempt = @ + 1, !.mode = "batch", !.j = 0,
                      !.item_attempt = 0, !.got = <<>>]
              ELSE [logged EXCEPT
                      !.status = "raised", !.mode = "none", !.got = <<>>]
    /\ UNCHANGED <<storeVars, retrieverVars, chunkerVars, embedderVars>>
    /\ UNCHANGED <<searching, ingestRun>>

EmbedTextsNext ==
    \/ \E texts \in TextLists : StartEmbedTexts(texts)
    \/ \E ok \in BOOLEAN : BatchedCall(ok)
    \/ \E ok \in BOOLEAN : ItemCall(ok)

SpecEmbedTexts == EmbedTextsInit /\ [][EmbedTextsNext]_vars

\* ------------------------------------------------ searches side by side
\* search, statement by statement, called by several threads on one store.
\* Every statement reads self.index or self.documents at the moment it
\* runs; query_embedding, top_k, scores, indices and results are locals of
\* the call.

\* The top_k arguments of the concurrent calls.
SearchKs == {1, MaxK}

\* The thread is inside search.
Running(t) == searching[t].pc \in {"check", "clamp", "search", "collect"}

\* Thread t calls search(query, top_k) on a build with the tie order tie.
\* The call is marked, and so is every call it finds running, as having run
\* side by side with another.
StartSearch(t, query, k, tie) ==
    /\ searching[t].pc = "idle"
    /\ searching' =
          [u \in Threads |->
             IF u = t
             THEN [NoSearch EXCEPT
                      !.pc = "check", !.query = query, !.top_k = k,
                      !.tie = tie,
                      !.overlapped = \E v \in Threads \ {t} : Running(v)]
             ELSE IF Running(u)
                  THEN [searching[u] EXCEPT !.overlapped = TRUE]
                  ELSE searching[u]]
    /\ UNCHANGED <<storeVars, retrieverVars, chunkerVars, embedderVars>>
    /\ UNCHANGED <<textsCall, ingestRun>>

\* if self.index.ntotal == 0: return []
CheckEmpty(t) ==
    /\ searching[t].pc = "check"
    /\ searching' =
          [searching EXCEPT
              ![t].pc = IF NTotal(index) = 0 THEN "done" ELSE "clamp"]
    /\ UNCHANGED <<storeVars, retrieverVars, chunkerVars, embedderVars>>
    /\ UNCHANGED <<textsCall, ingestRun>>

\* Every thread's local top_k is set by the call of one: top_k kept in a
\* place the calls share.
ClampShared(t) ==
    /\ searching[t].pc = "clamp"
    /\ searching' =
          [u \in Threads |->
             IF u = t
             THEN [searching[u] EXCEPT
                      !.pc = "search",
                      !.k = Min(searching[t].top_k, NTotal(index))]
             ELSE [searching[u] EXCEPT
                      !.k = Min(searching[t].top_k, NTotal(index))]]
    /\ UNCHANGED <<storeVars, retrieverVars, chunkerVars, embedderVars>>
    /\ UNCHANGED <<textsCall, ingestRun>>

\* top_k = min(top_k, self.index.ntotal), after the query was normalized
Clamp(t) ==
    /\ searching[t].pc = "clamp"
    /\ searching' =
          [searching EXCEPT
              ![t].pc = "search",
              ![t].k = Min(searching[t].top_k, NTotal(index))]
    /\ UNCHANGED <<storeVars, retrieverVars, chunkerVars, embedderVars>>
    /\ UNCHANGED <<textsCall, ingestRun>>

\* scores, indices = self.index.search(query_embedding, top_k): the error
\* of a query of another dimension, or the positions and their scores.
SearchIndex(t) ==
    /\ searching[t].pc = "search"
    /\ LET s == searching[t]
           qn == Normalize(s.query)
           ids == IndexSearch(index, qn, Min(s.k, NTotal(index)), s.tie)
       IN  searching' =
              [searching EXCEPT
                  ![t] = IF Len(s.query) # index.d
                         THEN [s EXCEPT !.pc = "raised"]
                         ELSE [s EXCEPT
                                 !.pc = "collect",
                                 !.i = 1,
                                 !.found =
                                    [r \in 1..Len(ids) |->
                                       [idx |-> ids[r],
                                        score |->
                                           Score(index.vecs[ids[r]], qn)]]]]
    /\ UNCHANGED <<storeVars, retrieverVars, chunkerVars, embedderVars>>
    /\ UNCHANGED <<textsCall, ingestRun>>

\* One turn of the loop over zip(scores[0], indices[0]), or its end and the
\* return of results.
Collect(t) ==
    /\ searching[t].pc = "collect"
    /\ LET s == searching[t]
       IN  searching' =
              [searching EXCEPT
                  ![t] =
                     IF s.i > Len(s.found) THEN [s EXCEPT !.pc = "done"]
                     ELSE IF s.found[s.i].idx <= Len(documents)
                     THEN [s EXCEPT
                             !.i = @ + 1,
                             !.results =
                                Append(@, [doc |-> documents[s.found[s.i].idx],
                                           score |-> s.found[s.i].score])]
                     ELSE [s EXCEPT !.i = @ + 1]]
    /\ UNCHANGED <<storeVars, retrieverVars, chunkerVars, embedderVars>>
    /\ UNCHANGED <<textsCall, ingestRun>>

\* The caller of thread t is done with what search returned or raised.
Finish(t) ==
    /\ searching[t].pc \in {"done", "raised"}
    /\ searching' = [searching EXCEPT ![t] = NoSearch]
    /\ UNCHANGED <<storeVars, retrieverVars, chunkerVars, embedderVars>>
    /\ UNCHANGED <<textsCall, ingestRun>>

\* No thread is inside search or holds its result.
Quiet == \A t \in Threads : searching[t].pc = "idle"

\* add called while no search runs.
QuietAdd == Quiet /\ AddCall

\* clear called while no search runs.
QuietClear == Quiet /\ Clear

\* The queries of the concurrent calls: two of dimension 2, the second
\* equally near both vectors, and one of dimension 1.
ConcurrentQueries == {<<2>>, <<2, 0>>, <<2, 2>>}

\* The tie orders a call can meet: the threads run in one process, on one
\* build, so a call meets the order the calls still running met.
TieBreaksNow ==
    IF Quiet THEN TieBreaks
    ELSE {searching[u].tie : u \in {v \in Threads : searching[v].pc # "idle"}}

StartSearchCall(t) ==
    \E q \in ConcurrentQueries, k \in SearchKs, tie \in TieBreaksNow :
        StartSearch(t, q, k, tie)

\* The store is filled while no search runs; searches run side by side
\* while nothing changes the store.
ConcurrentNext ==
    \/ QuietAdd
    \/ QuietClear
    \/ \E t \in Threads : StartSearchCall(t)
    \/ \E t \in Threads : CheckEmpty(t)
    \/ \E t \in Threads : Clamp(t)
    \/ \E t \in Threads : SearchIndex(t)
    \/ \E t \in Threads : Collect(t)
    \/ \E t \in Threads : Finish(t)

SpecConcurrent == Init /\ [][ConcurrentNext]_vars

\* ------------------------------------------------------- ingest_documents
\* The documents DocumentLoader.load_all can find: one of a paragraph, one
\* of two.  __post_init__ puts the source in the metadata.
DocA == [content |-> "cats", source |-> "a.md", metadata |-> "source=a.md"]

DocB ==
    [content |-> "cats\n\ndogs", source |-> "b.md", metadata |-> "source=b.md"]

\* What load_all returns: no document, or some in directory order.
FoundDocuments == {<<>>, <<DocA>>, <<DocB>>, <<DocA, DocB>>}

\* EMBEDDING_DIMENSION, 768 in the source: the length of the provider's
\* embeddings.
EMBEDDING_DIMENSION == Len(EmbeddingOf("cats"))

\* The most entries a store is let grow to.
MaxStored == 2 * MaxSize

\* TextChunker(settings.chunk_size, settings.chunk_overlap) at work on a
\* document, counting by the heuristic; the sizes scaled down to paragraphs
\* of one token.
IngestConfig(doc) == ChunkerConfig("None", 1, 1, doc)

\* all_chunks: the chunks of every document, in order (lines 73-80).
RECURSIVE AllChunks(_)
AllChunks(found) ==
    IF Len(found) = 0 THEN <<>>
    ELSE ChunkTextOp(IngestConfig(Head(found)), Head(found).content)
             \o AllChunks(Tail(found))

\* all_chunks for everything load_all can return.
ChunksFound == [found \in FoundDocuments |-> AllChunks(found)]

\* docs_for_storage (lines 103-111)
DocsForStorage(all_chunks) ==
    [k \in 1..Len(all_chunks) |->
        [content |-> all_chunks[k].content,
         source |-> all_chunks[k].source,
         chunk_id |-> ChunkId(all_chunks[k]),
         metadata |-> all_chunks[k].metadata]]

\* embedder.embed_texts(chunk_texts) when it returns (lines 87-88)
ChunkEmbeddings(all_chunks) ==
    [k \in 1..Len(all_chunks) |-> EmbeddingOf(all_chunks[k].content)]

\* The store of a run before add: FAISSVectorStore(embedder.dimension,
\* path), loaded if clear_existing is False, whatever load returns.
IngestStore(files, clear_existing) ==
    LET fresh == NewIndex(EMBEDDING_DIMENSION)
    IN  IF clear_existing
        THEN [ret |-> FALSE, index |-> fresh, documents |-> <<>>]
        ELSE LoadOp(fresh, <<>>, files)

\* The run of ingest_documents that finds no document: it returns at line
\* 61, before a store is made.
IngestNothing(clear_existing) ==
    /\ ingestRun' = [NoIngest EXCEPT
                        !.status = "no_documents",
                        !.clear_existing = clear_existing,
                        !.before = disk["index"]]
    /\ UNCHANGED <<storeVars, retrieverVars, chunkerVars, embedderVars>>
    /\ UNCHANGED <<searching, textsCall>>

\* The run of ingest_documents that finds documents and whose embed_texts
\* raises (a batch failed on every attempt): it ends at line 88, before a
\* store is made.  With no chunk there is no provider call to fail.
IngestEmbedFails(found, clear_existing) ==
    /\ Len(ChunksFound[found]) > 0
    /\ ingestRun' = [NoIngest EXCEPT
                        !.status = "raised",
                        !.clear_existing = clear_existing,
                        !.found = found,
                        !.before = disk["index"]]
    /\ UNCHANGED <<storeVars, retrieverVars, chunkerVars, embedderVars>>
    /\ UNCHANGED <<searching, textsCall>>

\* The run of ingest_documents that finds documents and embeds their
\* chunks: the store is made, loaded unless clear_existing, added to, and
\* saved, the save ending as outcome says.  An error of add ends the run
\* before save.  The guard keeps the model finite.
IngestStores(found, clear_existing, outcome) ==
    LET all_chunks == ChunksFound[found]
        store == IngestStore(disk["index"], clear_existing)
        added == AddOp(store.index, store.documents,
                       ChunkEmbeddings(all_chunks), DocsForStorage(all_chunks))
    IN  /\ Len(found) > 0
        /\ NTotal(added.index) <= MaxStored
        /\ Len(added.documents) <= MaxStored
        /\ dimension' = EMBEDDING_DIMENSION
        /\ index' = added.index
        /\ documents' = added.documents
        /\ IF added.outcome = "ok"
           THEN /\ disk' = [disk EXCEPT !["index"] =
                               SaveOp(added.index, added.documents, @, outcome)]
                /\ saved' = [saved EXCEPT !["index"] =
                                IF outcome = "ok"
                                THEN [valid |-> TRUE, index |-> added.index,
                                      documents |-> added.documents]
                                ELSE NoSave]
                /\ lastOp' = Call("save",
                                  IF outcome = "ok" THEN "ok" ELSE "raised",
                                  "index")
           ELSE /\ lastOp' = Call("add", added.outcome, "")
                /\ UNCHANGED <<disk, saved>>
        /\ ingestRun' =
              [status |-> IF added.outcome = "ok" /\ outcome = "ok"
                          THEN "ok" ELSE "raised",
               clear_existing |-> clear_existing,
               found |-> found,
               before |-> disk["index"],
               chunks |-> all_chunks]
        /\ UNCHANGED <<retrieverVars, chunkerVars, embedderVars>>
        /\ UNCHANGED <<searching, textsCall>>

\* The script has not run, over an empty store directory.
IngestInit ==
    /\ StoreInit
    /\ dimension = EMBEDDING_DIMENSION
    /\ RetrieverIdle
    /\ ChunkerIdle
    /\ EmbedderIdle
    /\ OthersIdle

\* One run of the script.
IngestNext ==
    \/ \E c \in BOOLEAN : IngestNothing(c)
    \/ \E found \in FoundDocuments, c \in BOOLEAN : IngestEmbedFails(found, c)
    \/ \E found \in FoundDocuments, c \in BOOLEAN, outcome \in SaveOutcomes :
          IngestStores(found, c, outcome)

SpecIngest == IngestInit /\ [][IngestNext]_vars

\* =================================================================== claims
\* Every result search can return in the current state.
SearchResults(ix, docs) ==
    [q \in Queries, k \in 1..MaxK, tie \in TieBreaks |->
        SearchOp(ix, docs, q, k, tie)]

\* C1: in every reachable state the number of vectors held by the index
\* (index.ntotal) equals the number of stored payloads (len(documents)).
C1_CountsAgree == NTotal(index) = Len(documents)

\* C2: a load(name) that follows a save(name) which returned normally
\* returns True and yields the size the saving index had and, for every
\* query, k and tie order of the build, the search result the saving index
\* gave: same payloads, same order, same scores.  This holds whatever the
\* loading index held before, so also for a fresh or cleared one.
C2_RoundTrip ==
    (lastOp.op = "load" /\ saved[lastOp.name].valid) =>
        /\ lastOp.outcome = "true"
        /\ Size = Len(saved[lastOp.name].documents)
        /\ NTotal(index) = NTotal(saved[lastOp.name].index)
        /\ SearchResults(index, documents) =
               SearchResults(saved[lastOp.name].index,
                             saved[lastOp.name].documents)

\* A load has restored a saved index of two entries with different vectors
\* and different payloads.
C2_Witness ==
    /\ lastOp.op = "load"
    /\ lastOp.outcome = "true"
    /\ saved[lastOp.name].valid
    /\ index.d = dimension
    /\ NTotal(index) = 2
    /\ Size = 2
    /\ index.vecs[1] # index.vecs[2]
    /\ documents[1] # documents[2]

C4_CountMismatchRejected ==
    \A E \in Arrays, D \in PayloadLists :
        Len(E) # Len(D) =>
            LET r == AddOp(index, documents, E, D)
            IN  /\ r.outcome = "ValueError"
                /\ r.index.vecs = index.vecs
                /\ r.index.d = index.d
                /\ r.documents = documents
                /\ Len(r.documents) = Size

\* An add with mismatched counts was refused by an index that holds entries.
C4_Witness ==
    /\ lastOp = Call("add", "ValueError", "")
    /\ NTotal(index) >= 1
    /\ Size >= 1

IndexQueries == QueryVec(index.d)

\* The stored positions that hold both a vector and a payload.
Entries == 1..Min(NTotal(index), Len(documents))

\* The score of the stored vector at position i for the query q.
EntryScore(i, q) == Score(index.vecs[i], Normalize(q))

\* C6: for every query vector (of the index's dimension) and every k >= 1,
\* search returns exactly min(k, size) results without raising: none on an
\* index with zero entries, and exactly size results when k exceeds the size.
C6_ResultCount ==
    \A q \in IndexQueries, k \in 1..MaxK, tie \in TieBreaks :
        LET r == SearchOp(index, documents, q, k, tie)
        IN  /\ r.outcome = "ok"
            /\ Len(r.results) = Min(k, Size)

C8_UnitNorm ==
    /\ \A i \in 1..NTotal(index) :
          Norm2(index.vecs[i].v) # 0 => HasUnitNorm(index.vecs[i])
    /\ \A q \in IndexQueries, k \in 1..MaxK, tie \in TieBreaks :
          LET res == SearchOp(index, documents, q, k, tie).results
          IN  \A r \in 1..Len(res) : ScoreInUnitRange(res[r].score)

\* C9: after clear(), from any reachable state, the index is empty with the
\* dimension given at construction: size is 0, index.ntotal is 0, every
\* search returns an empty sequence, and a following add of vectors of the
\* constructed dimension succeeds.
C9_ClearResets ==
    lastOp.op = "clear" =>
        /\ Size = 0
        /\ StatsIndexSize = 0
        /\ index.d = dimension
        /\ \A q \in Queries, k \in 1..MaxK, tie \in TieBreaks :
              SearchOp(index, documents, q, k, tie) =
                  [outcome |-> "ok", results |-> <<>>]
        /\ \A E \in SeqsUpTo(Vec(dimension), MaxSize) :
              \A D \in [1..Len(E) -> Payloads] :
                  LET r == AddOp(index, documents, E, D)
                  IN  /\ r.outcome = "ok"
                      /\ NTotal(r.index) = Len(E)
                      /\ Len(r.documents) = Len(E)

\* clear() has run while the saved store under a name holds entries of
\* another dimension than the constructed one.
C9_Witness ==
    /\ lastOp.op = "clear"
    /\ \E nm \in Names :
          /\ disk[nm].faiss.st = "ok"
          /\ disk[nm].pkl.st = "ok"
          /\ disk[nm].faiss.d # dimension
          /\ Len(disk[nm].faiss.vecs) > 0

\* C10: the dimension of the vector index equals the dimension given at
\* construction in every reachable state, and the dimension get_stats
\* reports equals the dimension of the underlying index.
C10_DimensionFixed ==
    /\ index.d = dimension
    /\ StatsDimension = index.d

\* C11: load(name) never raises, and when it returns False (an artifact is
\* missing, or reading or deserializing one fails) the vectors and the
\* payloads of the index are exactly what they were before the call.
C11_FailedLoadKeepsStore ==
    \A nm \in Names :
        LET r == LoadOp(index, documents, disk[nm])
        IN  (r.ret = FALSE) =>
                /\ r.index.vecs = index.vecs
                /\ r.documents = documents

\* The inputs of a retrieve call: query, top_k argument, how embed_query
\* ends, and the tie order of the build.
RetrieveInputs == QueryTexts \X KArgs \X EmbedResults \X TieBreaks

\* retrieve on the current store with the inputs c.
RetrieveNow(c) ==
    RetrieveOp(index, documents, top_k, score_threshold,
               c[1], c[2], c[3], c[4])

\* What search returns for the inputs c: for k, or top_k when k is not given.
SearchNow(c) ==
    SearchOp(index, documents, c[3].vec,
             IF c[2] # 0 THEN c[2] ELSE top_k, c[4])

\* C12: for a non-blank query (whose embedding and search succeed), the
\* output of retrieve is exactly the subsequence of the search results for
\* k, or top_k when k is not given, whose score is >= score_threshold, in
\* the same relative order: nothing below the threshold is returned,
\* nothing at or above it is dropped, and the scores are descending.
C12_ThresholdFilter ==
    top_k > 0 =>
        \A c \in RetrieveInputs :
            (/\ ~IsEmptyText(c[1])
             /\ c[3].ok
             /\ SearchOutcome(index, c[3].vec) = "ok") =>
                LET S == SearchNow(c).results
                    R == RetrieveNow(c).results
                    Keep == {i \in 1..Len(S) :
                                ~ScoreLess(S[i].score, score_threshold)}
                    Nth(j) == CHOOSE i \in Keep :
                                  Cardinality({x \in Keep : x < i}) = j - 1
                IN  /\ RetrieveNow(c).outcome = "returned"
                    /\ Len(R) = Cardinality(Keep)
                    /\ \A j \in 1..Len(R) :
                          /\ R[j].score = S[Nth(j)].score
                          /\ R[j].content = DocGet(S[Nth(j)].doc, "content", "")
                          /\ R[j].source =
                                 DocGet(S[Nth(j)].doc, "source", "unknown")
                          /\ ~ScoreLess(R[j].score, score_threshold)
                    /\ \A j \in 1..Len(R) - 1 :
                          ScoreLeq(R[j + 1].score, R[j].score)

\* retrieve has returned one result of a search that found two: one score
\* was below the threshold.
C12_Witness ==
    /\ lastCall.op = "retrieve"
    /\ Len(lastCall.results) = 1
    /\ \E c \in RetrieveInputs :
          /\ ~IsEmptyText(c[1])
          /\ c[3].ok
          /\ SearchOutcome(index, c[3].vec) = "ok"
          /\ Len(SearchNow(c).results) = 2
          /\ RetrieveNow(c).results = lastCall.results

\* C13: retrieve called with an empty or whitespace-only query returns an
\* empty sequence at once: it calls neither the embedding provider nor the
\* search of the index.
C13_BlankQuery ==
    /\ top_k > 0 =>
          \A c \in RetrieveInputs :
              IsEmptyText(c[1]) =>
                  /\ RetrieveNow(c).outcome = "returned"
                  /\ RetrieveNow(c).results = <<>>
                  /\ RetrieveNow(c).embedCalls = 0
                  /\ RetrieveNow(c).searchCalls = 0
    /\ (lastCall.op = "retrieve" /\ lastCall.embedCalls = 0) =>
          /\ lastCall.results = <<>>
          /\ lastCall.searchCalls = 0

\* retrieve has answered a blank query on a store that holds an entry every
\* threshold lets through.
C13_Witness ==
    /\ lastCall.op = "retrieve"
    /\ lastCall.embedCalls = 0
    /\ lastCall.searchCalls = 0
    /\ NTotal(index) >= 1
    /\ \E c \in RetrieveInputs : Len(RetrieveNow(c).results) >= 1

\* C14: when the embedding call of retrieve has exhausted its retry budget,
\* or the search of the index fails, retrieve ends with an error; it returns
\* an empty sequence only for an empty query, an empty index or when no
\* candidate reaches the threshold.
C14_ErrorsPropagate ==
    top_k > 0 =>
        \A c \in RetrieveInputs :
            /\ (/\ ~IsEmptyText(c[1])
                /\ (~c[3].ok \/ SearchOutcome(index, c[3].vec) # "ok")) =>
                   RetrieveNow(c).outcome = "raised"
            /\ (/\ RetrieveNow(c).outcome = "returned"
                /\ RetrieveNow(c).results = <<>>) =>
                   \/ IsEmptyText(c[1])
                   \/ /\ c[3].ok
                      /\ NTotal(index) = 0
                   \/ /\ c[3].ok
                      /\ SearchOutcome(index, c[3].vec) = "ok"
                      /\ \A i \in 1..Len(SearchNow(c).results) :
                            ScoreLess(SearchNow(c).results[i].score,
                                      score_threshold)

\* The calls of format_context and of retrieve_and_format.
Formatting == {"format_context", "retrieve_and_format"}

\* C15: format_context called with an empty result sequence returns the
\* fixed no-information sentinel, for every max_tokens.
C15_EmptySentinel ==
    /\ \A max_tokens \in Budgets :
          FormatContextOp(<<>>, max_tokens).context = NoInformation
    /\ (lastCall.op \in Formatting /\ lastCall.results = <<>>) =>
          lastCall.context = NoInformation

\* format_context has answered an empty result list under a budget of 0.
C15_Witness ==
    /\ lastCall.op = "format_context"
    /\ lastCall.results = <<>>
    /\ lastCall.max_tokens = 0
    /\ lastCall.context = NoInformation

\* The estimated token cost of the blocks: the sum of len(block) // 4.
RECURSIVE TokenCost(_)
TokenCost(parts) ==
    IF Len(parts) = 0 THEN 0
    ELSE PieceTokens(parts[1]) + TokenCost(Tail(parts))

\* C16 as claimed: for every result sequence and every max_tokens, the
\* estimated token cost of the included blocks is <= max_tokens.
C16_BudgetRespected ==
    lastCall.op \in Formatting =>
        TokenCost(lastCall.parts) <= lastCall.max_tokens

\* C16 (amended): for every result sequence and every max_tokens >= 0, the
\* estimated token cost of the included blocks is <= max_tokens; under a
\* negative max_tokens no block is included, and the cost, 0, is above it.
C16_BudgetRespectedFromZero ==
    lastCall.op \in Formatting =>
        /\ lastCall.max_tokens >= 0 =>
              TokenCost(lastCall.parts) <= lastCall.max_tokens
        /\ lastCall.max_tokens < 0 => lastCall.parts = <<>>

\* format_context was given two results and a budget that holds one block
\* and not two: it included the first.
C16_Witness ==
    /\ lastCall.op = "format_context"
    /\ Len(lastCall.results) = 2
    /\ Len(lastCall.parts) = 1
    /\ TokenCost(lastCall.parts) > 0
    /\ lastCall.max_tokens >= TokenCost(lastCall.parts)

\* C17: chunk_text on an empty or whitespace-only text returns an empty
\* sequence of chunks, for any source and metadata.
C17_BlankText ==
    (chunked.called /\ IsEmptyText(chunkInput.text)) =>
        chunked.chunks = <<>>

\* chunk_text was called on a text of whitespace alone, with metadata.
C17_Witness ==
    /\ chunked.called
    /\ chunkInput.text # ""
    /\ IsBlank(chunkInput.text)
    /\ chunkInput.metadata # "None"
    /\ chunked.chunks = <<>>

\* C18: the chunks returned by one chunk_text call carry the indices
\* 0, 1, ..., n-1 in output order, those made by splitting an oversized
\* paragraph into sentences included; so their identities (source, index)
\* and their id strings are pairwise distinct.
C18_DenseIndices ==
    chunked.called =>
        /\ \A i \in 1..Len(chunked.chunks) :
              chunked.chunks[i].chunk_index = i - 1
        /\ \A i, j \in 1..Len(chunked.chunks) :
              i # j =>
                  /\ <<chunked.chunks[i].source,
                       chunked.chunks[i].chunk_index>> #
                           <<chunked.chunks[j].source,
                             chunked.chunks[j].chunk_index>>
                  /\ ChunkId(chunked.chunks[i]) # ChunkId(chunked.chunks[j])

\* chunk_text has returned three chunks or more for a text whose second or
\* later paragraph is oversized and splits into two sentence chunks or more.
C18_Witness ==
    /\ chunked.called
    /\ Len(chunked.chunks) >= 3
    /\ chunked.chunks = ChunkTextOp(ConfigNow, chunkInput.text)
    /\ \E i \in 2..Len(SplitIntoParagraphs(chunkInput.text)) :
          LET para == SplitIntoParagraphs(chunkInput.text)[i]
          IN  /\ CountTokens(ConfigNow.tk, para) > chunk_size
              /\ Len(SplitLargeParagraph(ConfigNow, para, 0)) >= 2

\* C19: any two calls of chunk_text on the same chunker with the same text,
\* source and metadata return the same chunks: whenever a call has returned,
\* a call made now returns what it returned, the token-counting variant
\* being the same for every call.
C19_Deterministic ==
    chunked.called =>
        ChunkTextOp(ConfigNow, chunkInput.text) = chunked.chunks

\* What holds of an embed_query call at every moment: the provider was
\* called at most 3 times; every attempt before the last one made failed; a
\* call that has returned returns the result of its one successful attempt,
\* the last; a call that has raised made 3 attempts, which all failed.
EmbedQueryBounded ==
    /\ embedCall.attempts <= StopAfterAttempt
    /\ Len(embedCall.log) = embedCall.attempts
    /\ \A i \in 1..(embedCall.attempts - 1) : embedCall.log[i] # "ok"
    /\ embedCall.status = "returned" =>
          /\ embedCall.attempts >= 1
          /\ embedCall.log[embedCall.attempts] = "ok"
          /\ embedCall.result \in QueryVec(2)
    /\ embedCall.status \in {"running", "waiting"} =>
          /\ embedCall.attempts < StopAfterAttempt
          /\ \A i \in 1..embedCall.attempts : embedCall.log[i] # "ok"
    /\ embedCall.status = "raised" =>
          /\ embedCall.attempts = StopAfterAttempt
          /\ \A i \in 1..embedCall.attempts : embedCall.log[i] # "ok"

\* C20: a call of embed_query invokes the embedding provider at most 3
\* times; it returns the result of the first successful attempt and makes
\* no attempt after it; after 3 failed attempts in a row it stops and
\* reports failure to its caller; so every call ends.
C20_BoundedRetry ==
    /\ []EmbedQueryBounded
    /\ (embedCall.status = "running") ~>
           (embedCall.status \in {"returned", "raised"})

\* An embed_query call has returned the result of its third attempt, after
\* two failures.
C20_Witness ==
    /\ embedCall.status = "returned"
    /\ embedCall.attempts = StopAfterAttempt
    /\ embedCall.log[1] # "ok"
    /\ embedCall.log[2] # "ok"

\* The blocks of the first m results, numbered by rank.
PrefixBlocks(results, m) ==
    [i \in 1..m |-> ContextPiece(i, results[i])]

\* C23: the blocks format_context includes are the longest prefix of the
\* results, in the given order, whose cumulative estimated token cost stays
\* <= max_tokens: the first block that would overflow the budget and every
\* later block are dropped, also a later block small enough to fit; the
\* included blocks are numbered by their rank and joined by "\n---\n".
C23_LongestPrefix ==
    (lastCall.op \in Formatting /\ lastCall.results # <<>>) =>
        LET results == lastCall.results
            Fits == {m \in 0..Len(results) :
                        \A j \in 1..m :
                            TokenCost(PrefixBlocks(results, j))
                                <= lastCall.max_tokens}
            n == CHOOSE m \in Fits : \A x \in Fits : x <= m
        IN  /\ lastCall.parts = PrefixBlocks(results, n)
            /\ lastCall.context = Join(PrefixBlocks(results, n), "\n---\n")

\* format_context was given a block over the budget followed by a block
\* that fits the budget: it included neither.
C23_Witness ==
    /\ lastCall.op = "format_context"
    /\ Len(lastCall.results) = 2
    /\ lastCall.parts = <<>>
    /\ PieceTokens(ContextPiece(1, lastCall.results[1])) > lastCall.max_tokens
    /\ PieceTokens(ContextPiece(2, lastCall.results[2])) <= lastCall.max_tokens

\* C30: format_context returns the no-information sentinel only when results
\* is empty: for a non-empty result sequence whose first block alone costs
\* more than max_tokens no block is included and the text returned is the
\* empty string; whenever a block is included the text is not empty.
C30_SentinelOnlyForEmpty ==
    lastCall.op \in Formatting =>
        /\ lastCall.context = NoInformation <=> lastCall.results = <<>>
        /\ (/\ lastCall.results # <<>>
            /\ PieceTokens(ContextPiece(1, lastCall.results[1]))
                   > lastCall.max_tokens) =>
               /\ lastCall.parts = <<>>
               /\ lastCall.context = ""
        /\ lastCall.parts # <<>> => lastCall.context # ""

\* format_context was given a result whose block costs more than a budget
\* of 0 or more, and returned the empty string.
C30_Witness ==
    /\ lastCall.op = "format_context"
    /\ lastCall.results # <<>>
    /\ lastCall.max_tokens >= 0
    /\ lastCall.parts = <<>>
    /\ lastCall.context = ""

\* C22: while no operation changes the store, a search call that ran side
\* by side with others ends as the same call does when run alone on the
\* store: the same outcome and the same (document, score) pairs in the same
\* order, under every interleaving of their statements.
C22_ConcurrentSearchSafe ==
    \A t \in Threads :
        LET s == searching[t]
            alone == SearchOp(index, documents, s.query, s.top_k, s.tie)
        IN  /\ s.pc = "done" =>
                 /\ alone.outcome = "ok"
                 /\ s.results = alone.results
            /\ s.pc = "raised" => alone.outcome = "AssertionError"

\* Two calls with different arguments, both of which ran side by side with
\* the other, have returned two results each.
C22_Witness ==
    /\ \A t \in Threads :
          /\ searching[t].pc = "done"
          /\ searching[t].overlapped
          /\ Len(searching[t].results) = 2
    /\ searching[1].query # searching[2].query
    /\ searching[1].results # searching[2].results

\* The last chunk_text call was made with the configuration of now: it
\* counted tokens as a call made now does.
ChunkedNow ==
    /\ chunked.called
    /\ chunked.chunks = ChunkTextOp(ConfigNow, chunkInput.text)

\* The paragraphs of the text chunk_text was called with.
ParagraphsNow == SplitIntoParagraphs(chunkInput.text)

\* No paragraph alone exceeds chunk_size.
NoOversized(cfg, paragraphs) ==
    \A i \in 1..Len(paragraphs) :
        CountTokens(cfg.tk, paragraphs[i]) <= cfg.size

\* The last n items of s, none of them for n = 0.
Last(s, n) ==
    IF n >= Len(s) THEN s ELSE SubSeq(s, Len(s) - n + 1, Len(s))

\* The overlap tail of a chunk content: its last chunk_overlap tokens, or
\* its last chunk_overlap * 4 characters under the heuristic counter, or
\* the whole content when it is shorter than that.
OverlapTail(cfg, content) ==
    IF cfg.tk = "tiktoken"
    THEN Decode(Last(Encode(content), cfg.overlap))
    ELSE Last(content, cfg.overlap * 4)

\* The chunks from the i-th on are made of the paragraphs from the a-th on,
\* in order and without a gap: each begins with the overlap tail of the
\* chunk before it, then holds the next paragraphs, the first of them the
\* one that caused the flush.
RECURSIVE TailThenParagraphs(_, _, _, _, _)
TailThenParagraphs(cfg, paragraphs, chunks, i, a) ==
    IF i > Len(chunks) THEN a = Len(paragraphs) + 1
    ELSE LET tail == OverlapTail(cfg, chunks[i - 1].content)
             seed == IF tail = "" THEN <<>> ELSE <<tail>>
         IN  \E b \in a..Len(paragraphs) :
                /\ chunks[i].content =
                       Join(seed \o SubSeq(paragraphs, a, b), " ")
                /\ TailThenParagraphs(cfg, paragraphs, chunks, i + 1, b + 1)

\* C24: for a text in which no paragraph alone exceeds chunk_size, every
\* chunk after the first begins with the overlap tail of the chunk before
\* it, followed by the paragraph that caused the flush and the paragraphs
\* accumulated after it.
C24_OverlapTail ==
    (ChunkedNow /\ NoOversized(ConfigNow, ParagraphsNow)
                /\ Len(chunked.chunks) >= 2) =>
        \E b \in 1..Len(ParagraphsNow) :
            /\ chunked.chunks[1].content =
                   Join(SubSeq(ParagraphsNow, 1, b), " ")
            /\ TailThenParagraphs(ConfigNow, ParagraphsNow, chunked.chunks,
                                  2, b + 1)

\* The same for the chunkers with chunk_overlap >= 1.
C24_OverlapTailPositive == chunk_overlap >= 1 => C24_OverlapTail

\* The contents of the chunks, in order.
Contents(chunks) == [i \in 1..Len(chunks) |-> chunks[i].content]

\* The chunks chunk_text makes of the paragraphs alone, from an empty
\* accumulator.
ChunksOf(cfg, paragraphs) == ChunkLoop(cfg, paragraphs, 1, <<>>, <<>>, 0)

\* The text is a run of consecutive sentences joined by spaces.
IsSentenceRun(sentences, text) ==
    \E a \in 1..Len(sentences) : \E b \in a..Len(sentences) :
        text = Join(SubSeq(sentences, a, b), " ")

\* C26: at a paragraph whose token count alone exceeds chunk_size,
\* chunk_text emits what it had accumulated, then the chunks packed from
\* the sentences of that paragraph, each of them text of that paragraph
\* alone, and goes on with an empty accumulator: the chunks are those of
\* the paragraphs before it, those of its sentences, and those the
\* paragraphs after it give when chunked on their own, with no tail of the
\* oversized paragraph.
C26_OversizedParagraph ==
    ChunkedNow =>
        \A i \in 1..Len(ParagraphsNow) :
            CountTokens(ConfigNow.tk, ParagraphsNow[i]) > chunk_size =>
                LET before == SubSeq(ParagraphsNow, 1, i - 1)
                    after == SubSeq(ParagraphsNow, i + 1, Len(ParagraphsNow))
                    packed == SplitLargeParagraph(ConfigNow, ParagraphsNow[i], 0)
                IN  /\ Contents(chunked.chunks) =
                           Contents(ChunksOf(ConfigNow, before))
                               \o Contents(packed)
                               \o Contents(ChunksOf(ConfigNow, after))
                    /\ \A c \in 1..Len(packed) :
                          IsSentenceRun(SplitIntoSentences(ParagraphsNow[i]),
                                        packed[c].content)

\* chunk_text has met an oversized paragraph of two sentence chunks with a
\* paragraph accumulated before it and a paragraph after it.
C26_Witness ==
    /\ ChunkedNow
    /\ Len(ParagraphsNow) = 3
    /\ CountTokens(ConfigNow.tk, ParagraphsNow[1]) <= chunk_size
    /\ CountTokens(ConfigNow.tk, ParagraphsNow[2]) > chunk_size
    /\ CountTokens(ConfigNow.tk, ParagraphsNow[3]) <= chunk_size
    /\ Len(SplitLargeParagraph(ConfigNow, ParagraphsNow[2], 0)) = 2
    /\ Len(chunked.chunks) = 4
    /\ chunked.chunks[4].content = ParagraphsNow[3]

\* The chunk is one sentence of the text, or one paragraph that does not
\* split into sentences, which alone exceeds chunk_size.
IsSingleOversized(cfg, paragraphs, chunk) ==
    \E i \in 1..Len(paragraphs) :
        LET sentences == SplitIntoSentences(paragraphs[i])
        IN  \E j \in 1..Len(sentences) :
               /\ chunk.content = sentences[j]
               /\ CountTokens(cfg.tk, sentences[j]) > cfg.size

\* C27: every chunk chunk_text returns has a token_count <= chunk_size,
\* except a chunk that is a single sentence or unsplittable paragraph which
\* alone exceeds chunk_size; so a chunk seeded with an overlap tail and a
\* new paragraph does not exceed chunk_size.
C27_TokenCountBound ==
    ChunkedNow =>
        \A c \in 1..Len(chunked.chunks) :
            \/ chunked.chunks[c].metadata.token_count <= chunk_size
            \/ IsSingleOversized(ConfigNow, ParagraphsNow, chunked.chunks[c])

\* The pieces of text chunk_text places whole: the paragraphs, and for a
\* paragraph larger than chunk_size its sentences, in input order.
RECURSIVE Units(_, _)
Units(cfg, paragraphs) ==
    IF Len(paragraphs) = 0 THEN <<>>
    ELSE (IF CountTokens(cfg.tk, Head(paragraphs)) > cfg.size
          THEN SplitIntoSentences(Head(paragraphs))
          ELSE <<Head(paragraphs)>>) \o Units(cfg, Tail(paragraphs))

\* The content ends with the text, which is all of it or follows a space.
EndsWithPart(content, text) ==
    /\ Len(content) >= Len(text)
    /\ SubSeq(content, Len(content) - Len(text) + 1, Len(content)) = text
    /\ \/ Len(content) = Len(text)
       \/ CharAt(content, Len(content) - Len(text)) = " "

\* The chunks from the c-th on hold the units from the a-th on: each chunk
\* ends with one unit or more, the next ones in input order, in full and
\* joined by spaces, after at most a tail of earlier text; the last chunk
\* ends with the last unit.
RECURSIVE HoldsInOrder(_, _, _, _)
HoldsInOrder(units, chunks, c, a) ==
    IF c > Len(chunks) THEN a = Len(units) + 1
    ELSE \E b \in a..Len(units) :
            /\ EndsWithPart(chunks[c].content, Join(SubSeq(units, a, b), " "))
            /\ HoldsInOrder(units, chunks, c + 1, b + 1)

\* C28: chunk_text loses no text.  Every paragraph of the input, and every
\* sentence of a paragraph larger than chunk_size, is in full in a returned
\* chunk; the chunks hold them in input order; and what is in the
\* accumulator after the last paragraph is the last chunk, whatever its
\* size.
C28_NoTextLost ==
    ChunkedNow =>
        HoldsInOrder(Units(ConfigNow, ParagraphsNow), chunked.chunks, 1, 1)

\* chunk_text has returned two chunks or more, the last of them holding a
\* last paragraph that is under chunk_size.
C28_Witness ==
    /\ ChunkedNow
    /\ Len(chunked.chunks) >= 2
    /\ Len(ParagraphsNow) >= 2
    /\ chunked.chunks[Len(chunked.chunks)].metadata.token_count < chunk_size
    /\ chunked.chunks[Len(chunked.chunks)].content =
           ParagraphsNow[Len(ParagraphsNow)]

\* The texts of the batches, one after the other.
RECURSIVE Flatten(_)
Flatten(batches) ==
    IF Len(batches) = 0 THEN <<>>
    ELSE Head(batches).texts \o Flatten(Tail(batches))

\* C21: embed_texts on n texts gives the provider batches of at most
\* MAX_BATCH_SIZE texts that cover the texts in order, and when it returns
\* it returns n vectors, the i-th the embedding of the i-th text, whether a
\* batch was served by the batched call or by the per-item calls; on an
\* empty list it returns an empty result and calls the provider not once.
C21_BatchesInOrder ==
    LET c == textsCall
        covered == Flatten(c.batches)
    IN  /\ \A b \in 1..Len(c.batches) :
              /\ Len(c.batches[b].texts) >= 1
              /\ Len(c.batches[b].texts) <= MAX_BATCH_SIZE
        /\ Len(covered) <= Len(c.texts)
        /\ covered = SubSeq(c.texts, 1, Len(covered))
        /\ \A k \in 1..Len(c.log) :
              c.log[k].kind = "batch" =>
                  c.log[k].content = c.batches[Len(c.batches)].texts
        /\ c.status = "returned" =>
              /\ covered = c.texts
              /\ Len(c.all_embeddings) = Len(c.texts)
              /\ \A n \in 1..Len(c.texts) :
                    c.all_embeddings[n] = EmbeddingOf(c.texts[n])
              /\ Len(c.texts) = 0 => (c.batches = <<>> /\ c.log = <<>>)

\* embed_texts has returned the embeddings of two full batches of different
\* texts, one served by the batched call and one by the per-item calls.
C21_Witness ==
    /\ textsCall.status = "returned"
    /\ Len(textsCall.texts) = 2 * MAX_BATCH_SIZE
    /\ textsCall.texts[1] # textsCall.texts[2]
    /\ Len(textsCall.batches) = 2
    /\ textsCall.batches[1].served = "items"
    /\ textsCall.batches[2].served = "batch"
    /\ Len(textsCall.all_embeddings) = 2 * MAX_BATCH_SIZE

\* C25: the per-item calls for a batch are made only after the batched
\* provider call for it has failed on every one of its attempts,
\* stop_after_attempt(3) of them: before any per-item call of a batch the
\* batched call has failed three times.
C25_FallbackAfterRetries ==
    \A k \in 1..Len(textsCall.log) :
        textsCall.log[k].kind = "item" =>
            Cardinality({m \in 1..(k - 1) :
                            /\ textsCall.log[m].kind = "batch"
                            /\ ~textsCall.log[m].ok}) >= StopAfterAttempt

\* The artifacts hold a store that load takes for good: both are there and
\* can be read.
LoadsSuccessfully(files) == LoadOp(NewIndex(0), <<>>, files).ret

\* C29: after a run of ingest_documents that found documents and ended
\* normally, the saved store holds the entries of the store saved before
\* (if clear_existing is False and that store loads successfully, none
\* otherwise), then one entry per chunk of the run, in order, the payload
\* of each chunk at the position of the embedding of its content; a run
\* that finds no document leaves the saved store as it was.
C29_IngestAppends ==
    LET run == ingestRun
        kept == ~run.clear_existing /\ LoadsSuccessfully(run.before)
        old_docs == IF kept THEN run.before.pkl.docs ELSE <<>>
        old_vecs == IF kept THEN run.before.faiss.vecs ELSE <<>>
        now == disk["index"]
    IN  /\ run.status = "ok" =>
              /\ now.faiss.st = "ok"
              /\ now.pkl.st = "ok"
              /\ now.pkl.docs = old_docs \o DocsForStorage(run.chunks)
              /\ now.faiss.vecs =
                     old_vecs \o NormalizeAll(ChunkEmbeddings(run.chunks))
              /\ \A k \in 1..Len(run.chunks) :
                    /\ Len(old_docs) + k <= Len(now.faiss.vecs)
                    /\ now.faiss.vecs[Len(old_docs) + k] =
                           Normalize(EmbeddingOf(run.chunks[k].content))
        /\ run.status = "no_documents" => now = run.before

\* The artifacts are of one store: none of them is there, or both are and
\* hold as many vectors as payloads.
OfOneStore(files) ==
    \/ files.faiss.st = "none" /\ files.pkl.st = "none"
    \/ /\ files.faiss.st = "ok"
       /\ files.pkl.st = "ok"
       /\ Len(files.faiss.vecs) = Len(files.pkl.docs)

\* The same for the runs that start from the artifacts of one store.
C29_IngestAppendsToOneStore == OfOneStore(ingestRun.before) => C29_IngestAppends

====
